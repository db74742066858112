----------------------------- MODULE MCTelemetry -----------------------------
(***************************************************************************)
(* The telemetry beside the request path: the canary store and its readers,*)
(* the shadow gate, the traces of a dual-read query and the rolling window.*)
(* They share nothing here, so one of them moves in a behaviour and the    *)
(* state spaces add up.                                                    *)
(***************************************************************************)
EXTENDS Canary, ShadowGate, Observers, RollingWindow, TLC

(* The flags: both on, with and without an events connection, or one only; *)
(* the connection of sqlite_store.connect, or of an owner with no factory. *)
Flags ==
  /\ (config.dual /\ config.log) \/ (config.events /\ config.dual # config.log)
  /\ config.factory = "row" \/ (config.dual /\ config.log /\ config.events /\ log = <<>>)

MCInit == CanaryInit /\ ShadowInit /\ ObsInit /\ Flags /\ WindowInit

ObsAtRest ==
  /\ query = [q \in Queries |-> Begun] /\ now = 0
  /\ config.dual /\ config.log /\ config.events
  /\ config.factory = "row" /\ log = <<>>

(* Within a behaviour the canary store is read by the exporter or the gate.*)
OneReader == gate' = NoGate \/ (cached' = NoSnapshot /\ scrape' = NoScrape)

MCNext ==
  \/ /\ CanaryNext /\ OneReader /\ ShadowInit /\ ObsAtRest /\ WindowInit
     /\ UNCHANGED <<shadowVars, obsVars, windowVars>>
  \/ /\ ShadowNext /\ CanaryInit /\ ObsAtRest /\ WindowInit
     /\ UNCHANGED <<canaryVars, obsVars, windowVars>>
  \/ /\ ObsNext /\ CanaryInit /\ ShadowInit /\ WindowInit
     /\ UNCHANGED <<canaryVars, shadowVars, windowVars>>
  \/ /\ WindowNext /\ CanaryInit /\ ShadowInit /\ ObsAtRest
     /\ UNCHANGED <<canaryVars, shadowVars, obsVars>>

MCSpec == MCInit /\ [][MCNext]_<<canaryVars, shadowVars, obsVars, windowVars>>

(* The threads of the four parts are the same model values.                *)
Symmetry == Permutations(Producers) \union Permutations(Events)
=============================================================================
