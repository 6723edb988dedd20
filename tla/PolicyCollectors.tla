-------------------------- MODULE PolicyCollectors --------------------------
(* What three collectors that have no sub-collectors leave behind:            *)
(* collectors/alerts.py, collectors/config.py and collectors/insight.py.      *)
EXTENDS Outcomes

(* alerts.py: the alerts of the organization; without alerts no count is      *)
(* reset.  A failure ends the collection, so the sensor overview waits.       *)
AssuranceAlerts(due) ==
    Gate("alerts_assurance", Org, due,
        Call("alerts_assurance", Org) \bullet Read("alerts_assurance")
            \bullet IfAny("alerts_assurance", Totals("alerts", "alerts_assurance", Org))
            \bullet Mark("alerts_assurance", Org))

NetworkSensorAlerts(n) ==
    Call("alerts_sensor_overview", n) \bullet
        IfAny("alerts_sensor_overview", Write("sensor_alerts", "alerts_sensor_overview", n))

SensorOverview(due) ==
    Gate("alerts_sensor_overview", Org, due,
        Read("alerts_sensor_overview")
            \bullet IfAny("alerts_sensor_overview", Each([n \in Items |-> NetworkSensorAlerts(n)]))
            \bullet Mark("alerts_sensor_overview", Org))

Alerts(due) == Read("organizations") \bullet AssuranceAlerts(due) \bullet SensorOverview(due)

-----------------------------------------------------------------------------
(* config.py: four parts behind one gate.  All but the administrators write   *)
(* series that never expire; a 400 or a 404 of the last two means zero.       *)
Unsupported == Empty("config_org")
SetForGood(s) == Write(s, "untracked", Org)

LoginSecurity == Call("config_org", "login_security") \bullet SetForGood("login_security")

Admins == Call("config_org", "admins") \bullet Totals("admins", "config_org", Org)

SamlIdps == Done \cup Call("config_org", "saml") \cup Unsupported

Saml ==
    (Unsupported \bullet SetForGood("saml_enabled") \cup
     Call("config_org", "saml") \bullet SetForGood("saml_enabled") \bullet SamlIdps)
    \bullet SetForGood("saml_idps")

ConfigurationChanges ==
    (Unsupported \cup Call("config_org", "changes") \bullet Read("config_org"))
    \bullet SetForGood("configuration_changes")

(* The organization fails only when every part does.                          *)
EitherOf(A, B) ==
    {o \in A : ~o.raised} \bullet Caught(B) \cup Caught({o \in A : o.raised}) \bullet B

OrgConfig ==
    EitherOf(LoginSecurity, EitherOf(Admins, EitherOf(Saml, ConfigurationChanges)))

OrgSettings(due) ==
    Gate("config_org", Org, due, Read("config_org") \bullet OrgConfig \bullet Mark("config_org", Org))

-----------------------------------------------------------------------------
(* insight.py: the selected applications are kept between cycles; without the *)
(* licence there is nothing to ask.                                           *)
NoLicence(g) == {Raise("none", g, Org)}

Applications ==
    NoLicence("insight_applications")
        \cup Call("insight_applications", Org)
                 \bullet Totals("applications", "insight_applications", Org)

ApplicationHealth(n) ==
    NoLicence("insight_app_health")
        \cup Call("insight_app_health", n)
                 \bullet IfAny("insight_app_health", Totals("app_health", "insight_app_health", n))

OrgInsight(due) ==
    Caught((IF <<"insight_applications", Org>> \in due THEN Applications
                                                       ELSE Done \cup Applications)
           \bullet (IF <<"insight_app_health", Org>> \in due
                    THEN IfAny("insight_app_health",
                               Read("insight_app_health")
                                   \bullet Each([n \in Items |-> ApplicationHealth(n)]))
                    ELSE Done))

(* Both gates are asked first, and both are marked whatever came of the calls. *)
Insight(due) ==
    LET asked == ({"insight_applications", "insight_app_health"} \X {Org}) \cap due
    IN  IF asked = {} THEN Done
        ELSE {[Nothing EXCEPT !.asked = asked]} \bullet Read("organizations")
                 \bullet OrgInsight(due) \bullet {[Nothing EXCEPT !.marked = asked]}
-----------------------------------------------------------------------------
PolicySites == {"alerts", "config", "insight"}

Policy(site, due) ==
    CASE site = "alerts"  -> Alerts(due)
      [] site = "config"  -> OrgSettings(due)
      [] site = "insight" -> Insight(due)
=============================================================================
