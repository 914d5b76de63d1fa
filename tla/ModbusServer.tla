----------------------------- MODULE ModbusServer -----------------------------
(***************************************************************************)
(* What a Modbus slave promises a master: a request that was heard whole   *)
(* is executed at most once and as it was sent, one request at a time, and *)
(* a request that was not a broadcast is answered, after it is executed    *)
(* and with the reply to that request.  Requests may be lost: the master   *)
(* repeats one that is not answered.                                       *)
(***************************************************************************)
CONSTANTS
  Requests, None,
  Ours,           \* those this slave executes
  Answered        \* and those it answers

VARIABLES
  heard,      \* the last frame of the line, if it was heard whole
  owed,       \* the request in hand
  done,       \* it has been executed
  applied,    \* the request executed since one was taken in hand
  answer      \* the request answered since then

mVars == <<heard, owed, done, applied, answer>>

ServerInit == /\ heard = None /\ owed = None /\ ~done
              /\ applied = None /\ answer = None

\* A frame begins on the line, or ends.
Hear == /\ heard' \in Requests \cup {None}
        /\ UNCHANGED <<owed, done, applied, answer>>

Accept == /\ heard \in Ours
          /\ owed = None
          /\ owed' = heard /\ heard' = None
          /\ applied' = None /\ answer' = None
          /\ UNCHANGED done

Apply == /\ owed # None /\ ~done
         /\ applied' = owed
         /\ IF owed \in Answered THEN done' = TRUE /\ UNCHANGED owed
                              ELSE owed' = None /\ UNCHANGED done
         /\ UNCHANGED <<heard, answer>>

Answer == /\ owed # None /\ done
          /\ answer' = owed
          /\ owed' = None /\ done' = FALSE
          /\ UNCHANGED <<heard, applied>>

ServerNext == Hear \/ Accept \/ Apply \/ Answer

ServerSpec == ServerInit /\ [][ServerNext]_mVars
=============================================================================
