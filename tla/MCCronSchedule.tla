---------------------------- MODULE MCCronSchedule ----------------------------
(* Instances of CronSchedule for TLC.                                      *)
EXTENDS CronSchedule
=============================================================================
