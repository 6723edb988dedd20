-------------------------- MODULE SensorCollectors --------------------------
(* What the environmental sensor collectors leave behind:                     *)
(* collectors/devices/mt.py with mt_sensor.py, and collectors/mt_alerts.py.   *)
EXTENDS Outcomes

(* The readings: a sensor whose readings are malformed is gone through        *)
(* reading by reading.  The connections of the gateways share the gate and    *)
(* the mark, and fail apart.                                                  *)
OrgSensors ==
    Read("mt_sensor_readings") \bullet Read("mt_sensor_readings") \bullet
        IfAny("mt_sensor_readings",
              Call("mt_sensor_readings", Org) \bullet {RowsOf("sensor", "mt_sensor_readings")})

GatewayConnections ==
    Caught(Call("mt_sensor_readings", Org) \bullet
        IfAny("mt_sensor_readings",
              Read("mt_sensor_readings") \bullet Rows("gateway_rssi", "mt_sensor_readings")))

SensorReadings(due) ==
    Gate("mt_sensor_readings", Org, due,
        OrgSensors \bullet GatewayConnections \bullet Mark("mt_sensor_readings", Org))

-----------------------------------------------------------------------------
(* mt_alerts.py: three calls for each network, none of which raises; a        *)
(* malformed overview skips the other two calls of its network.               *)
Swallowed(g, n, A) == Lost(g, n) \cup Answer(g, n) \bullet A

NetworkAlerts(n) ==
    Swallowed("mt_sensor_alerts", n, Totals("alerting_sensors", "mt_sensor_alerts", n))

NetworkAlertProfiles(n) ==
    Swallowed("mt_alert_profiles", n, Write("alert_profiles", "mt_alert_profiles", n))

NetworkRelationships(n) ==
    Swallowed("mt_relationships", n, Write("related_devices", "mt_relationships", n))

SensorNetwork(n, due) ==
    Gate("mt_sensor_alerts", Org, due, NetworkAlerts(n))
    \bullet Gate("mt_alert_profiles", Org, due, NetworkAlertProfiles(n))
    \bullet Gate("mt_relationships", Org, due, NetworkRelationships(n))

AlertGroups == {"mt_sensor_alerts", "mt_alert_profiles", "mt_relationships"}

(* The gates are asked first; every group that was due is marked unless the   *)
(* networks could not be listed.                                              *)
SensorAlerts(due) ==
    LET asked == (AlertGroups \X {Org}) \cap due
    IN  IF asked = {} THEN Done
        ELSE {[Nothing EXCEPT !.asked = asked]} \bullet Read("networks")
                 \bullet IfAny("networks", Each([n \in Items |-> SensorNetwork(n, due)]))
                 \bullet {[Nothing EXCEPT !.marked = asked]}

SensorSites == {"mt_readings", "mt_alerts"}

Sensor(site, due) ==
    CASE site = "mt_readings" -> SensorReadings(due)
      [] site = "mt_alerts"   -> SensorAlerts(due)
=============================================================================
