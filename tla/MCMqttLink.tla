------------------------------ MODULE MCMqttLink ------------------------------
(* Instances of MqttLink: three set-ups, so that one may fail and one may be  *)
(* unloaded, with drops in between and a key that changes once.               *)
EXTENDS MqttLink
===============================================================================
