---------------------------- MODULE MCWorkerLoops ----------------------------
(***************************************************************************)
(* Small instances of the two loops of the LiveTracking worker that await  *)
(* others: the command loop, with a short queue and every loss and         *)
(* failure, and the catch-up with a P3 decoder.  They share no state, so a *)
(* behaviour is one of a single loop: `part` says of which.                *)
(***************************************************************************)
EXTENDS Naturals, Sequences

CONSTANTS
  Parts, None,
  MaxCommands, MaxSeq, MaxFaults,
  MaxAttempts, MaxGap, MaxCatchUp, MaxPassings, MaxOutages

ASSUME LoopsAssumption ==
  /\ None \notin Nat
  /\ MaxCommands \in Nat /\ MaxSeq \in Nat /\ MaxFaults \in Nat
  /\ MaxAttempts \in Nat \ {0} /\ MaxGap \in Nat /\ MaxCatchUp \in Nat
  /\ MaxPassings \in Nat /\ MaxOutages \in Nat

VARIABLES
  part,
  session, rev, lastSeq, sessionLink, up, down, local, tick, inFlight, executed, faults,
  last, link, wire, requests, highest, pending, given, hardwareId, resumeKnown, sessionAsked,
    sessionTimer, resume, queue, stored, base, seen, since, skipped, passings, outages

Commands == INSTANCE SessionCommands WITH link <- sessionLink
Decoder == INSTANCE P3CatchUp WITH faults <- outages, MaxFaults <- MaxOutages

commandVars == <<session, rev, lastSeq, sessionLink, up, down, local, tick, inFlight, executed, faults>>
decoderVars == <<last, link, wire, requests, highest, pending, given, hardwareId, resumeKnown, sessionAsked,
                 sessionTimer, resume, queue, stored, base, seen, since, skipped, passings, outages>>

Init == part \in Parts /\ Commands!Init /\ Decoder!Init

CommandStep == part = "commands" /\ Commands!Next /\ UNCHANGED <<part, decoderVars>>
DecoderStep == part = "decoder" /\ Decoder!Next /\ UNCHANGED <<part, commandVars>>

Next == CommandStep \/ DecoderStep

Spec == Init /\ [][Next]_<<part, commandVars, decoderVars>>

(* Timers fire, the server handles what reaches it, the worker reconnects and reads its frames. *)
CommandFairness ==
  /\ WF_commandVars(part = "commands" /\ Commands!HandleWrite)
  /\ WF_commandVars(part = "commands" /\ Commands!Reconnect)
  /\ WF_commandVars(part = "commands" /\ Commands!Deliver)
  /\ WF_commandVars(part = "commands" /\ Commands!Tick)
  /\ WF_commandVars(part = "commands" /\ Commands!FetchAnswered)
  /\ WF_commandVars(part = "commands" /\ Commands!Execute)

(* Reconnect and timers run, the decoder answers and reports its status; the server need not answer
   the stats request. *)
DecoderFairness ==
  /\ WF_decoderVars(part = "decoder" /\ Decoder!Connect)
  /\ WF_decoderVars(part = "decoder" /\ Decoder!Deliver)
  /\ WF_decoderVars(part = "decoder" /\ Decoder!Answer)
  /\ WF_decoderVars(part = "decoder" /\ Decoder!Status)
  /\ WF_decoderVars(part = "decoder" /\ Decoder!Resumed)
  /\ WF_decoderVars(part = "decoder" /\ Decoder!ResumeWaitOver)
  /\ WF_decoderVars(part = "decoder" /\ Decoder!Due(Decoder!Open))

FairSpec == Spec /\ CommandFairness /\ DecoderFairness

-----------------------------------------------------------------------------
(* The properties of the loops, each stated and explained in its module. *)

(* The variables of both loops have their types. *)
TypeOK == Commands!TypeOK /\ Decoder!TypeOK

(* Commands run one at a time and in the order of the queue. *)
OneAtATime == Commands!OneAtATime

(* The windows of a measurement are in time order and do not overlap. *)
WindowsOrdered == Commands!WindowsOrdered

(* The queue is served. *)
QueueServed == Commands!QueueServed

(* The session state says whether passings count. *)
StateFitsMeasurement == Commands!StateFitsMeasurement

(* Every number of the decoder's count is received, requested, given up or beyond a limit. *)
Accounted == Decoder!Accounted

(* Every request for a missing number ends, and every connection gets its catch-up. *)
CatchUpEnds ==
  /\ \A n \in Decoder!Numbers : []<>(n \notin Decoder!Open)
  /\ <>[](part = "decoder" => link /\ hardwareId /\ sessionAsked)

(* After a reconnect nothing above the highest stored number is missing. *)
OutageCaughtUp == Decoder!OutageCaughtUp
=============================================================================
