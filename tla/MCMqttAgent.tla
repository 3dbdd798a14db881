---------------------------- MODULE MCMqttAgent ----------------------------
EXTENDS MqttAgent

\* The applications as they are built, and with the device advisor's test.
MCApplication == {"subscribe", "publish", "result"}
MCAdvisor == {"subscribe", "publish", "advise"}
=============================================================================
