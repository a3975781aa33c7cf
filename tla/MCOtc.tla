------------------------------- MODULE MCOtc -------------------------------
(***************************************************************************)
(* One run of two kinds of behaviour: the limiter alone, with every caller *)
(* issuing requests at will and the stopwatch started at any moment, and   *)
(* the adapter over the limiter, where no stopwatch runs.                  *)
(***************************************************************************)
EXTENDS OtcDesk

VARIABLE part

MCInit ==
    /\ OtcInit
    /\ part \in {"limiter", "adapter"}
    /\ part = "adapter" => seenAge = Window

LimiterAlone == part = "limiter" /\ Next /\ UNCHANGED <<deskVars, part>>
AdapterOverLimiter == part = "adapter" /\ OtcNext /\ UNCHANGED part
TimePasses == Tick /\ UNCHANGED <<deskVars, part>>

MCSpec ==
    /\ MCInit
    /\ [][LimiterAlone \/ AdapterOverLimiter]_<<otcVars, part>>
    /\ WF_<<otcVars, part>>(TimePasses)

=============================================================================
