------------------------------ MODULE MCLaunch ------------------------------
(* Launch for jobs of up to six nodes: two aggregators and four clients.   *)
EXTENDS Launch
=============================================================================
