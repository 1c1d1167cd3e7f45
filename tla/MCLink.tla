------------------------------- MODULE MCLink -------------------------------
(***************************************************************************)
(* Two instances of ArqLink in one run of TLC.  In "transfer", whose       *)
(* constants the configuration gives, the link is up, its numbers are      *)
(* about to pass from 7 to 0, one station sends, and T1 may expire at any  *)
(* time.  In "connects" both stations connect, send, disconnect and give   *)
(* up, and T1 exceeds the round trip.                                      *)
(*                                                                         *)
(* The properties are those of ArqLink; AckedWasReceived and               *)
(* EndsAgreeWhenQuiet do not depend on what the two instances differ in.   *)
(***************************************************************************)
EXTENDS ArqLink

VARIABLE scenario

Connects == INSTANCE ArqLink
  WITH Sender <- Station, MaxBytes <- 2, Byte <- 1..2, MaxOpens <- 1, MaxAir <- 3,
       PatientT1 <- TRUE, Digipeated <- FALSE, LinkUp <- FALSE, FirstSeq <- 0,
       Window <- 2, N2 <- 1, N1 <- 1

MCInit ==
  \/ scenario = "transfer" /\ Init
  \/ scenario = "connects" /\ Connects!Init

MCNext ==
  \/ scenario = "transfer" /\ Next /\ UNCHANGED scenario
  \/ scenario = "connects" /\ Connects!Next /\ UNCHANGED scenario

MCSpec == MCInit /\ [][MCNext]_<<vars, scenario>>
=============================================================================
