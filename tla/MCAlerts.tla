------------------------------ MODULE MCAlerts ------------------------------
EXTENDS Alerts, TLC
=============================================================================
