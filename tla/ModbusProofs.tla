----------------------------- MODULE ModbusProofs -----------------------------
(***************************************************************************)
(* With a master that keeps silent for two ticks more than the timer of    *)
(* the slave, no assertion of mbrtu.c fails, no two events meet, nobody    *)
(* waits for what does not come, and the slave keeps the promise of        *)
(* ModbusServer, whatever the requests, the lengths and the times are and  *)
(* whatever the line does to a frame.                                      *)
(*                                                                         *)
(* The invariant says how much of the silence is left at each point of the *)
(* way of a frame, from its last character to the reply, so that nothing   *)
(* new is in the buffer before; and which frame the buffer holds.          *)
(***************************************************************************)
EXTENDS ModbusRtu, TLAPS

PatientMaster == Patience >= T35 + 2

Receiving == eRcvState \in {"RCV", "ERROR"}
Pending   == "FRAME_RECEIVED" \in events \/ poll \in {"check", "accept"}
Executing == "EXECUTE" \in events \/ poll = "execute"
Replying  == start \/ poll \in {"send", "build", "xmit", "rxoff"}
Serving   == Executing \/ Replying

\* The transmitter works for the reply only.
Transmitter ==
  /\ start => rxOn = FALSE
  /\ ~start => rxOn = TRUE
  /\ start => poll = "pass" /\ eSndState = "XMIT" /\ Len(wire) + usSndBufferCount = FrameLen
  /\ ~start => wire = <<>>
  /\ eSndState = "XMIT" => start \/ poll = "rxoff"
  /\ poll \in {"xmit", "rxoff"} => usSndBufferCount = FrameLen
  /\ poll = "rxoff" => eSndState = "XMIT"

\* Before the receiver is idle for the first time.
Starting ==
  /\ poll = "enable" => eRcvState = "INIT"
  /\ eRcvState = "INIT" => /\ usRcvBufferPos = 0 /\ events = {} /\ ~start
                           /\ poll \in {"enable", "get", "blocked"}

\* The timer runs while the receiver receives, and ends in the silence.
TimerRuns ==
  /\ eRcvState = "IDLE" => timer = 0
  /\ Receiving => timer >= 1
  /\ Silent /\ Receiving => hush >= timer + 2

\* A frame whose first character is still to come finds the receiver idle, or in
\* a disturbance that goes on.
Opening ==
  ~Silent /\ sent = 0 =>
    /\ ~Pending
    /\ whole => ~Receiving
    /\ ~whole => eRcvState # "IDLE" /\ timer > hush

Apart ==
  /\ events \in {{}, {"FRAME_RECEIVED"}, {"EXECUTE"}, {"FRAME_SENT"}}
  /\ poll \notin {"pass", "nap", "get"} \/ start => events = {}
  /\ "FRAME_RECEIVED" \in events => poll = "get"
  /\ "EXECUTE" \in events => poll \in {"nap", "get"}
  /\ "FRAME_SENT" \in events /\ poll # "get" => timer \in {0, T35}

Quiet ==
  /\ Pending /\ Silent => hush >= 2
  /\ Serving => Silent /\ eRcvState = "IDLE" /\ hush >= 1
  /\ "EXECUTE" \in events /\ poll = "nap" => hush >= 2

\* While a frame is received: nothing in the buffer that was not yet sent; if
\* all of it is there, all of it arrived as it was sent.
Filling ==
  ~Silent /\ Receiving =>
    /\ \A k \in 1 .. usRcvBufferPos : ucRTUBuf[k][1] = "req" => ucRTUBuf[k][3] <= sent
    /\ eRcvState = "RCV" /\ usRcvBufferPos = sent
         /\ (\A k \in 1 .. sent : ucRTUBuf[k] = <<"req", frame, k>>)
       => whole /\ ~Pending

\* A frame in the buffer is the frame that was heard.
Filled ==
  \A r \in Requests : IsFrame(usRcvBufferPos, "req", r) =>
    /\ Silent /\ Receiving => eRcvState = "RCV" /\ ~Pending /\ heard = r
    /\ Pending => Silent /\ eRcvState = "IDLE" /\ heard = r

Checked ==
  poll = "accept" => checked \in Requests /\ IsFrame(usRcvBufferPos, "req", checked)

\* The request in hand, and what the buffer holds of it.
InHand ==
  /\ ~Serving => owed = None
  /\ Serving => /\ owed \in Requests /\ AddrOf[owed] # "other"
                /\ ucRcvAddress = AddrOf[owed] /\ usLength = FrameLen
  /\ Executing => \A i \in Parts : ucRTUBuf[i] = <<"req", owed, i>>
  /\ Replying => AddrOf[owed] = "us" /\ \A i \in PDU : ucRTUBuf[i] = <<"rep", owed, i>>
  /\ poll \in {"xmit", "rxoff"} \/ start =>
       \A i \in Parts : ucRTUBuf[i] = <<"rep", owed, i>>
  /\ \A i \in 1 .. Len(wire) : wire[i] = ucRTUBuf[i]

RtuTypes == TypeOK /\ Transmitter
RtuInv   == /\ NoAssertFails /\ Starting /\ TimerRuns /\ Opening /\ Apart /\ Quiet
            /\ Filling /\ Filled /\ Checked /\ InHand

-----------------------------------------------------------------------------
(* Types.                                                                   *)

LEMMA LineChars == /\ Junk \in Chars
                   /\ \A r \in Requests, i \in Parts : <<"req", r, i>> \in Chars
BY DEF Chars, Junk

LEMMA ReplyChars == \A r \in Requests \cup {Mixed}, i \in Parts : <<"rep", r, i>> \in Chars
BY DEF Chars

LEMMA TypesInit == Init => RtuTypes
<1> SUFFICES ASSUME Init PROVE RtuTypes
  OBVIOUS
<1>1. ucRTUBuf = [i \in 1 .. BufSize |-> Junk] /\ Junk \in Chars
  BY LineChars DEF Init
<1>2. wire \in Seq(Chars) /\ Len(wire) = 0 /\ wire = <<>>
  BY DEF Init
<1>3. /\ rxOn \in BOOLEAN /\ start \in BOOLEAN /\ failed \in BOOLEAN
      /\ whole \in BOOLEAN
  BY DEF Init
<1> QED
  BY <1>1, <1>2, <1>3, RtuAssumption DEF Init, RtuTypes, TypeOK, Transmitter, EventTypes

LEMMA ReceiveTypes ==
  ASSUME RtuTypes, NEW c \in Chars, Deliver(c) \/ Lose
  PROVE  /\ eRcvState' \in {"INIT", "IDLE", "RCV", "ERROR"}
         /\ ucRTUBuf' \in [1 .. BufSize -> Chars]
         /\ usRcvBufferPos' \in 0 .. BufSize
         /\ timer' \in 0 .. T35 /\ failed' \in BOOLEAN
<1>1. failed' \in BOOLEAN
  BY DEF RtuTypes, TypeOK, Deliver, Lose, ReceiveFSM
<1> QED
  BY <1>1, RtuAssumption DEF RtuTypes, TypeOK, Deliver, Lose, ReceiveFSM, RestartTimer,
                             Begin, Store, Overrun, rtu

LEMMA ExpiryTypes ==
  ASSUME RtuTypes, NEW p \in {"blocked", "get", "pass"}, T35Expired(p)
  PROVE  /\ eRcvState' \in {"INIT", "IDLE", "RCV", "ERROR"}
         /\ failed' \in BOOLEAN /\ events' \subseteq EventTypes
         /\ poll' \in {"get", "pass", "check"} \cup {p}
         /\ poll' = p \/ p = "blocked"
<1>1. CASE eRcvState = "INIT"
  BY <1>1 DEF RtuTypes, TypeOK, T35Expired, EventPost, Handler, EventTypes
<1>2. CASE eRcvState = "RCV"
  BY <1>2 DEF RtuTypes, TypeOK, T35Expired, EventPost, Handler, EventTypes
<1>3. CASE eRcvState \in {"IDLE", "ERROR"}
  BY <1>3 DEF RtuTypes, TypeOK, T35Expired
<1> QED
  BY <1>1, <1>2, <1>3 DEF RtuTypes, TypeOK

LEMMA TickTypes == RtuTypes /\ Tick => RtuTypes'
<1> SUFFICES ASSUME RtuTypes, Tick PROVE RtuTypes'
  OBVIOUS
<1> DEFINE p == IF poll = "nap" THEN "get" ELSE poll
<1>1. p \in {"blocked", "get", "pass"}
  BY DEF Tick, InReply, RtuTypes, Transmitter
<1>2. hush' \in 0 .. Patience /\ timer' \in 0 .. T35
  <2>1. /\ hush' = hush \/ hush' = Max2(hush - 1, 0)
        /\ timer' = Max2(timer - 1, 0)
    BY DEF Tick
  <2> QED
    BY <2>1, RtuAssumption DEF Max2, RtuTypes, TypeOK
<1>3. /\ eRcvState' \in {"INIT", "IDLE", "RCV", "ERROR"}
      /\ failed' \in BOOLEAN /\ events' \subseteq EventTypes
      /\ poll' \in {"get", "pass", "check"} \cup {p}
      /\ poll' = p \/ p = "blocked"
  <2>1. CASE timer = 1
    <3>1. T35Expired(p)
      BY <2>1 DEF Tick
    <3> QED
      BY <1>1, <3>1, ExpiryTypes
  <2>2. CASE timer # 1
    BY <2>2 DEF Tick, RtuTypes, TypeOK
  <2> QED
    BY <2>1, <2>2
<1>4. start => poll' = "pass"
  BY <1>3 DEF RtuTypes, Transmitter
<1> QED
  BY <1>1, <1>2, <1>3, <1>4 DEF Tick, RtuTypes, TypeOK, Transmitter, tx, mb, line, history

LEMMA LineTypes == RtuTypes /\ (NewFrame \/ LineChar \/ Spurious) => RtuTypes'
<1> SUFFICES ASSUME RtuTypes PROVE NewFrame \/ LineChar \/ Spurious => RtuTypes'
  OBVIOUS
<1>1. ASSUME NewFrame PROVE RtuTypes'
  BY <1>1, RtuAssumption DEF NewFrame, RtuTypes, TypeOK, Transmitter, rtu, tx, mb
<1>2. ASSUME LineChar PROVE RtuTypes'
  <2>1. <<"req", frame, sent + 1>> \in Chars
    BY <1>2, LineChars, RtuAssumption DEF LineChar, Silent, RtuTypes, TypeOK, Parts
  <2>2. /\ eRcvState' \in {"INIT", "IDLE", "RCV", "ERROR"}
        /\ ucRTUBuf' \in [1 .. BufSize -> Chars]
        /\ usRcvBufferPos' \in 0 .. BufSize
        /\ timer' \in 0 .. T35 /\ failed' \in BOOLEAN
        /\ whole' \in BOOLEAN
    <3>1. CASE Deliver(<<"req", frame, sent + 1>>) /\ whole' = whole
      BY <3>1, <2>1, ReceiveTypes DEF RtuTypes, TypeOK
    <3>2. CASE (Deliver(Junk) \/ Lose) /\ whole' = FALSE
      BY <3>2, LineChars, ReceiveTypes
    <3> QED
      BY <3>1, <3>2, <1>2 DEF LineChar
  <2>3. /\ frame' \in Requests \cup {None} /\ heard' \in Requests \cup {None}
        /\ sent' \in 0 .. FrameLen - 1 /\ hush' \in 0 .. Patience
    BY <1>2, RtuAssumption DEF LineChar, Silent, RtuTypes, TypeOK
  <2> QED
    BY <1>2, <2>2, <2>3 DEF LineChar, RtuTypes, TypeOK, Transmitter, tx, mb
<1>3. ASSUME Spurious PROVE RtuTypes'
  <2>1. /\ eRcvState' \in {"INIT", "IDLE", "RCV", "ERROR"}
        /\ ucRTUBuf' \in [1 .. BufSize -> Chars]
        /\ usRcvBufferPos' \in 0 .. BufSize
        /\ timer' \in 0 .. T35 /\ failed' \in BOOLEAN
    BY <1>3, LineChars, ReceiveTypes DEF Spurious
  <2>2. whole' \in BOOLEAN
    BY <1>3 DEF Spurious
  <2> QED
    BY <1>3, <2>1, <2>2, RtuAssumption
       DEF Spurious, RtuTypes, TypeOK, Transmitter, tx, mb, history
<1> QED
  BY <1>1, <1>2, <1>3

LEMMA InBufferType == InBuffer \in Requests \cup {Mixed}
BY DEF InBuffer

LEMMA HandlerType == \A e \in EventTypes : Handler[e] \in {"pass", "check", "execute"}
BY DEF Handler, EventTypes

LEMMA PollTypes == RtuTypes /\ PollStep => RtuTypes'
<1> SUFFICES ASSUME RtuTypes PROVE PollStep => RtuTypes'
  OBVIOUS
<1> USE RtuAssumption DEF At, RtuTypes, TypeOK, Transmitter, rtu, tx, mb, line, history
<1>1. ASSUME PollEnable PROVE RtuTypes'
  BY <1>1 DEF PollEnable
<1>2. ASSUME PollGet PROVE RtuTypes'
  <2>1. poll' \in {"blocked", "pass", "check", "execute"}
    BY <1>2, HandlerType DEF PollGet
  <2> QED
    BY <1>2, <2>1 DEF PollGet
<1>3. ASSUME PollPass PROVE RtuTypes'
  BY <1>3 DEF PollPass
<1>4. ASSUME PollCheck PROVE RtuTypes'
  <2>1. checked' \in Requests \cup {None} /\ poll' \in {"accept", "nap"}
    BY <1>4 DEF PollCheck, CrcGood
  <2> QED
    BY <1>4, <2>1 DEF PollCheck
<1>5. ASSUME PollAccept PROVE RtuTypes'
  <2>1. ucRcvAddress' \in {"us", "all", "other"}
    BY <1>5 DEF PollAccept, AddrIn
  <2> QED
    BY <1>5, <2>1 DEF PollAccept, EventTypes
<1>6. ASSUME PollExecute PROVE RtuTypes'
  <2>1. ucRTUBuf' \in [1 .. BufSize -> Chars]
    BY <1>6, InBufferType, ReplyChars DEF PollExecute, PDU, Parts
  <2> QED
    BY <1>6, <2>1, InBufferType DEF PollExecute
<1>7. ASSUME PollSend PROVE RtuTypes'
  BY <1>7 DEF PollSend
<1>8. ASSUME PollBuild PROVE RtuTypes'
  <2>1. ucRTUBuf[2][2] \in Requests \cup {Mixed}
    BY DEF Chars, Junk
  <2>2. 1 \in Parts /\ FrameLen \in Parts
    BY DEF Parts
  <2>3. ucRTUBuf' \in [1 .. BufSize -> Chars]
    BY <1>8, <2>1, <2>2, ReplyChars DEF PollBuild
  <2> QED
    BY <1>8, <2>3 DEF PollBuild
<1>9. ASSUME PollXmit PROVE RtuTypes'
  BY <1>9 DEF PollXmit
<1>10. ASSUME PollRxOff PROVE RtuTypes'
  <2>1. Len(wire) = 0
    BY <1>10 DEF PollRxOff
  <2>2. rxOn' \in BOOLEAN /\ start' \in BOOLEAN
    BY <1>10 DEF PollRxOff
  <2> QED
    BY <1>10, <2>1, <2>2 DEF PollRxOff
<1> QED
  BY <1>1, <1>2, <1>3, <1>4, <1>5, <1>6, <1>7, <1>8, <1>9, <1>10 DEF PollStep

LEMMA ReplyType == Reply \in Requests \cup {Mixed}
BY DEF Reply

LEMMA TransmitTypes == RtuTypes /\ TransmitFSM => RtuTypes'
<1> SUFFICES ASSUME RtuTypes, TransmitFSM PROVE RtuTypes'
  OBVIOUS
<1> USE RtuAssumption
        DEF TransmitFSM, RtuTypes, TypeOK, Transmitter, rtu, tx, mb, line
<1>1. CASE eRcvState # "IDLE"
  BY <1>1
<1>2. CASE eRcvState = "IDLE" /\ PutChar
  <2>1. Len(wire) + 1 \in 1 .. FrameLen
    BY <1>2 DEF PutChar
  <2>2. ucRTUBuf[Len(wire) + 1] \in Chars
    BY <2>1
  <2>3. wire' \in Seq(Chars) /\ Len(wire') = Len(wire) + 1
    BY <1>2, <2>2 DEF PutChar
  <2> QED
    BY <1>2, <2>1, <2>3 DEF PutChar
<1>3. CASE eRcvState = "IDLE" /\ Finish
  <2>1. wire' \in Seq(Chars) /\ Len(wire') = 0 /\ wire' = <<>>
    BY <1>3 DEF Finish
  <2>2. hush' \in 0 .. Patience /\ events' \subseteq EventTypes
    BY <1>3 DEF Finish, EventTypes
  <2>3. rxOn' \in BOOLEAN /\ start' \in BOOLEAN
    BY <1>3 DEF Finish
  <2> QED
    BY <1>3, <2>1, <2>2, <2>3, ReplyType DEF Finish
<1> QED
  BY <1>1, <1>2, <1>3

LEMMA StutterTypes == RtuTypes /\ UNCHANGED vars => RtuTypes'
BY DEF RtuTypes, TypeOK, Transmitter, vars, rtu, tx, mb, line, history

\* The slave's variables keep their types, with any master: no position in the
\* buffer is past its end, no reply is longer than it, and no state of the two
\* machines is left (mbrtu.c:156, 268-276, 300-306).
THEOREM TypeCorrect == Spec => []TypeOK
<1>1. RtuTypes /\ [Next]_vars => RtuTypes'
  BY TickTypes, LineTypes, PollTypes, TransmitTypes, StutterTypes DEF Next
<1>2. RtuTypes => TypeOK
  BY DEF RtuTypes
<1> QED
  BY TypesInit, <1>1, <1>2, PTL DEF Spec

-----------------------------------------------------------------------------
(* The steps of the poll.                                                   *)

LEMMA EnableInv == ASSUME RtuTypes, RtuInv, PollEnable PROVE RtuInv'
<1> USE DEF PollEnable, At, Receiving, Pending, Executing, Replying, Serving, Silent
<1>1. Starting' /\ NoAssertFails'
  BY DEF RtuInv, Starting, NoAssertFails
<1>2. TimerRuns'
  BY RtuAssumption DEF TimerRuns
<1>3. Opening'
  BY RtuAssumption DEF RtuInv, Opening, Starting, RtuTypes, TypeOK, line
<1>4. Apart'
  BY DEF RtuInv, Apart, Starting
<1>5. Quiet'
  BY DEF RtuInv, Quiet, Starting, line
<1>6. Filling' /\ Filled' /\ Checked'
  BY DEF RtuInv, Starting, Filling, Filled, Checked, line
<1>7. InHand'
  BY DEF RtuInv, Starting, InHand, history, mb
<1> QED
  BY <1>1, <1>2, <1>3, <1>4, <1>5, <1>6, <1>7 DEF RtuInv

LEMMA GetInv == ASSUME RtuTypes, RtuInv, PollGet PROVE RtuInv'
<1> USE DEF PollGet, At, Receiving, Pending, Executing, Replying, Serving, Silent,
            rtu, tx, mb, line, history
<1>1. \/ events = {} /\ poll' = "blocked"
      \/ events = {"FRAME_RECEIVED"} /\ poll' = "check"
      \/ events = {"EXECUTE"} /\ poll' = "execute"
      \/ events = {"FRAME_SENT"} /\ poll' = "pass"
  BY DEF RtuInv, Apart, Handler
<1>2. Starting' /\ NoAssertFails' /\ TimerRuns'
  BY <1>1 DEF RtuInv, Starting, NoAssertFails, TimerRuns
<1>3. Opening' /\ Quiet'
  BY <1>1 DEF RtuInv, Opening, Quiet
<1>4. Apart' /\ Checked'
  BY <1>1 DEF RtuInv, Apart, Checked
<1>5. Filling'
  BY <1>1 DEF RtuInv, Filling
<1>6. Filled'
  BY <1>1 DEF RtuInv, Filled, IsFrame
<1>7. InHand'
  BY <1>1 DEF RtuInv, InHand
<1> QED
  BY <1>2, <1>3, <1>4, <1>5, <1>6, <1>7 DEF RtuInv

LEMMA PassInv == ASSUME RtuTypes, RtuInv, PollPass PROVE RtuInv'
<1> USE DEF PollPass, At, Receiving, Pending, Executing, Replying, Serving, Silent,
            rtu, tx, mb, line, history
<1>1. Starting' /\ NoAssertFails' /\ TimerRuns'
  BY DEF RtuInv, Starting, NoAssertFails, TimerRuns
<1>2. Opening' /\ Quiet'
  BY DEF RtuInv, Opening, Quiet, Apart
<1>3. Apart' /\ Checked'
  BY DEF RtuInv, Apart, Checked
<1>4. Filling'
  BY DEF RtuInv, Filling, Apart
<1>5. Filled'
  BY DEF RtuInv, Filled, IsFrame, Apart
<1>6. InHand'
  BY DEF RtuInv, InHand
<1> QED
  BY <1>1, <1>2, <1>3, <1>4, <1>5, <1>6 DEF RtuInv

LEMMA CheckInv == ASSUME RtuTypes, RtuInv, PollCheck PROVE RtuInv'
<1> USE DEF PollCheck, At, Receiving, Pending, Executing, Replying, Serving, Silent,
            rtu, tx, mb, line
<1>1. events = {}
  BY DEF RtuInv, Apart
<1>2. Starting' /\ NoAssertFails' /\ TimerRuns'
  BY DEF RtuInv, Starting, NoAssertFails, TimerRuns
<1>3. Opening' /\ Quiet'
  BY <1>1 DEF RtuInv, Opening, Quiet
<1>4. Apart'
  BY <1>1 DEF Apart
<1>5. Checked'
  BY DEF Checked, CrcGood, IsFrame
<1>6. Filling'
  BY DEF RtuInv, Filling
<1>7. Filled'
  BY DEF RtuInv, Filled, IsFrame
<1>8. InHand'
  BY <1>1 DEF RtuInv, InHand
<1> QED
  BY <1>2, <1>3, <1>4, <1>5, <1>6, <1>7, <1>8 DEF RtuInv

LEMMA AcceptInv == ASSUME RtuTypes, RtuInv, PollAccept PROVE RtuInv'
<1> USE DEF PollAccept, At, Receiving, Pending, Executing, Replying, Serving, Silent,
            rtu, tx, line
<1>1. events = {} /\ ~Serving
  BY DEF RtuInv, Apart
<1>2. /\ checked \in Requests /\ IsFrame(usRcvBufferPos, "req", checked)
      /\ frame = None /\ eRcvState = "IDLE" /\ hush >= 2 /\ heard = checked
  BY DEF RtuInv, Checked, Filled, Quiet
<1>3. ucRcvAddress' = AddrOf[checked] /\ usLength' = FrameLen
  BY <1>2, RtuAssumption DEF IsFrame, AddrIn, Parts
<1>4. Starting' /\ NoAssertFails' /\ TimerRuns'
  BY <1>2 DEF RtuInv, Starting, NoAssertFails, TimerRuns
<1>5. Opening' /\ Quiet' /\ Filling' /\ Filled'
  BY <1>1, <1>2, RtuAssumption DEF RtuTypes, TypeOK, Opening, Quiet, Filling, Filled
<1>6. Apart' /\ Checked'
  BY <1>1 DEF Apart, Checked
<1>7. InHand'
  BY <1>1, <1>2, <1>3 DEF RtuInv, InHand, IsFrame
<1> QED
  BY <1>4, <1>5, <1>6, <1>7 DEF RtuInv

LEMMA ExecuteInv == ASSUME RtuTypes, RtuInv, PollExecute PROVE RtuInv'
<1> USE DEF PollExecute, At, Receiving, Pending, Executing, Replying, Serving, Silent,
            tx, mb, line
<1>1. /\ events = {} /\ frame = None /\ eRcvState = "IDLE" /\ hush >= 1
      /\ owed \in Requests /\ AddrOf[owed] # "other"
      /\ ucRcvAddress = AddrOf[owed] /\ usLength = FrameLen
      /\ \A i \in Parts : ucRTUBuf[i] = <<"req", owed, i>>
  BY DEF RtuInv, Apart, Quiet, InHand
<1>2. 2 \in PDU /\ PDU \subseteq Parts
  BY RtuAssumption DEF PDU, Parts
<1>3. \A r \in Requests : (\A i \in PDU : ucRTUBuf[i] = <<"req", r, i>>) <=> r = owed
  BY <1>1, <1>2
<1>4. InBuffer = owed
  BY <1>1, <1>3 DEF InBuffer
<1>5. AddrOf[owed] \in {"us", "all"}
  BY <1>1, RtuAssumption
<1>6. \A i \in PDU : ucRTUBuf'[i] = <<"rep", owed, i>>
  BY <1>2, <1>4, RtuAssumption DEF Parts
<1>7. Starting' /\ NoAssertFails' /\ TimerRuns'
  BY <1>1 DEF RtuInv, Starting, NoAssertFails, TimerRuns
<1>8. Opening' /\ Quiet' /\ Filling' /\ Filled' /\ Apart' /\ Checked'
  BY <1>1 DEF Opening, Quiet, Filling, Filled, Apart, Checked
<1>9. InHand'
  <2>1. wire = <<>>
    BY DEF RtuTypes, Transmitter
  <2> QED
    BY <1>1, <1>5, <1>6, <2>1 DEF InHand
<1> QED
  BY <1>7, <1>8, <1>9 DEF RtuInv

LEMMA SendInv == ASSUME RtuTypes, RtuInv, PollSend PROVE RtuInv' /\ poll' = "build"
<1> USE DEF PollSend, At, Receiving, Pending, Executing, Replying, Serving, Silent,
            rtu, tx, mb, line
<1>1. events = {} /\ frame = None /\ eRcvState = "IDLE" /\ hush >= 1
  BY DEF RtuInv, Apart, Quiet
<1>2. Starting' /\ NoAssertFails' /\ TimerRuns'
  BY <1>1 DEF RtuInv, Starting, NoAssertFails, TimerRuns
<1>3. Opening' /\ Quiet' /\ Filling' /\ Filled' /\ Apart' /\ Checked'
  BY <1>1 DEF Opening, Quiet, Filling, Filled, Apart, Checked
<1>4. InHand' /\ poll' = "build"
  BY <1>1 DEF RtuInv, InHand
<1> QED
  BY <1>2, <1>3, <1>4 DEF RtuInv

LEMMA BuildInv == ASSUME RtuTypes, RtuInv, PollBuild PROVE RtuInv'
<1> USE DEF PollBuild, At, Receiving, Pending, Executing, Replying, Serving, Silent,
            mb, line, history
<1>1. events = {} /\ frame = None /\ eRcvState = "IDLE" /\ hush >= 1
  BY DEF RtuInv, Apart, Quiet
<1>2. Starting' /\ NoAssertFails' /\ TimerRuns'
  BY <1>1 DEF RtuInv, Starting, NoAssertFails, TimerRuns
<1>3. Opening' /\ Quiet' /\ Filling' /\ Filled' /\ Apart' /\ Checked'
  BY <1>1 DEF Opening, Quiet, Filling, Filled, Apart, Checked
<1>4. \A i \in Parts : ucRTUBuf'[i] = <<"rep", owed, i>>
  <2>1. \A i \in PDU : ucRTUBuf[i] = <<"rep", owed, i>>
    BY DEF RtuInv, InHand
  <2>2. ucRTUBuf[2][2] = owed
    BY <2>1, RtuAssumption DEF PDU
  <2>3. \A i \in Parts : i \in PDU \/ i \in {1, FrameLen}
    BY RtuAssumption DEF PDU, Parts
  <2>4. Parts \subseteq 1 .. BufSize
    BY RtuAssumption DEF Parts
  <2> QED
    BY <2>1, <2>2, <2>3, <2>4
<1>5. InHand'
  <2>1. wire = <<>>
    BY DEF RtuTypes, Transmitter
  <2>2. PDU \subseteq Parts
    BY RtuAssumption DEF PDU, Parts
  <2>3. /\ Replying' /\ ~Executing' /\ owed' = owed
        /\ ucRcvAddress' = ucRcvAddress /\ usLength' = usLength /\ wire' = <<>>
    BY <1>1, <2>1
  <2>4. owed \in Requests /\ AddrOf[owed] = "us" /\ ucRcvAddress = "us"
        /\ usLength = FrameLen
    BY DEF RtuInv, InHand
  <2>5. /\ \A i \in PDU : ucRTUBuf'[i] = <<"rep", owed', i>>
        /\ \A i \in Parts : ucRTUBuf'[i] = <<"rep", owed', i>>
    BY <1>4, <2>2, <2>3
  <2>6. \A i \in 1 .. Len(wire') : wire'[i] = ucRTUBuf'[i]
    BY <2>3
  <2> HIDE DEF PollBuild, Replying, Executing
  <2> QED
    BY <2>3, <2>4, <2>5, <2>6 DEF InHand, Serving
<1> QED
  BY <1>2, <1>3, <1>5 DEF RtuInv

LEMMA XmitInv == ASSUME RtuTypes, RtuInv, PollXmit \/ PollRxOff PROVE RtuInv'
<1> USE DEF PollXmit, PollRxOff, At, Receiving, Pending, Executing, Replying, Serving,
            Silent, rtu, mb, line, history
<1>1. events = {} /\ frame = None /\ eRcvState = "IDLE" /\ hush >= 1
  BY DEF RtuInv, Apart, Quiet
<1>2. Starting' /\ NoAssertFails' /\ TimerRuns'
  BY <1>1 DEF RtuInv, Starting, NoAssertFails, TimerRuns
<1>3. Opening' /\ Quiet' /\ Filling' /\ Filled' /\ Apart' /\ Checked'
  BY <1>1 DEF Opening, Quiet, Filling, Filled, Apart, Checked
<1>4. InHand'
  BY <1>1 DEF RtuInv, InHand
<1> QED
  BY <1>2, <1>3, <1>4 DEF RtuInv

-----------------------------------------------------------------------------
(* The reply.                                                               *)

LEMMA TransmitInv == ASSUME RtuTypes, RtuInv, TransmitFSM PROVE RtuInv'
<1> USE DEF TransmitFSM, Receiving, Pending, Executing, Replying, Serving, Silent,
            rtu, mb, line
<1>1. /\ events = {} /\ frame = None /\ eRcvState = "IDLE" /\ hush >= 1
      /\ poll = "pass" /\ start
  BY DEF RtuInv, Apart, Quiet, RtuTypes, Transmitter
<1>2. timer = 0
  BY <1>1 DEF RtuInv, TimerRuns
<1>3. CASE PutChar
  <2>1. Starting' /\ NoAssertFails' /\ TimerRuns'
    BY <1>1, <1>3 DEF PutChar, RtuInv, Starting, NoAssertFails, TimerRuns
  <2>2. Opening' /\ Quiet' /\ Filling' /\ Filled' /\ Apart' /\ Checked'
    BY <1>1, <1>3 DEF PutChar, Opening, Quiet, Filling, Filled, Apart, Checked
  <2>3. /\ Len(wire') = Len(wire) + 1 /\ Len(wire) \in Nat
        /\ \A i \in 1 .. Len(wire) : wire'[i] = wire[i]
        /\ wire'[Len(wire) + 1] = ucRTUBuf[Len(wire) + 1]
    BY <1>1, <1>3 DEF PutChar, RtuTypes, TypeOK
  <2>4. \A i \in 1 .. Len(wire') : wire'[i] = ucRTUBuf'[i]
    <3>1. \A i \in 1 .. Len(wire) : wire[i] = ucRTUBuf[i]
      BY DEF RtuInv, InHand
    <3> QED
      BY <1>1, <2>3, <3>1
  <2>5. /\ Replying' /\ ~Executing' /\ owed' = owed /\ ucRTUBuf' = ucRTUBuf
        /\ ucRcvAddress' = ucRcvAddress /\ usLength' = usLength
    BY <1>1, <1>3 DEF PutChar
  <2>6. InHand'
    BY <1>1, <2>4, <2>5 DEF RtuInv, InHand
  <2> QED
    BY <2>1, <2>2, <2>6 DEF RtuInv
<1>4. CASE Finish
  <2>1. Starting' /\ NoAssertFails' /\ TimerRuns'
    BY <1>1, <1>4 DEF Finish, RtuInv, Starting, NoAssertFails, TimerRuns
  <2>2. Opening' /\ Quiet' /\ Filling' /\ Filled' /\ Checked'
    BY <1>1, <1>4 DEF Finish, Opening, Quiet, Filling, Filled, Checked
  <2>3. Apart'
    BY <1>1, <1>2, <1>4 DEF Finish, Apart
  <2>4. InHand'
    BY <1>1, <1>4 DEF Finish, InHand
  <2> QED
    BY <2>1, <2>2, <2>3, <2>4 DEF RtuInv
<1> QED
  BY <1>1, <1>3, <1>4

-----------------------------------------------------------------------------
(* Time.                                                                    *)

LEMMA TickInReply ==
  ASSUME RtuTypes, RtuInv, Tick, InReply
  PROVE  UNCHANGED vars
<1>1. start /\ poll = "pass"
  BY DEF InReply, RtuTypes, Transmitter
<1>2. eRcvState = "IDLE" /\ timer = 0
  BY <1>1 DEF RtuInv, Quiet, Serving, Replying, TimerRuns
<1>3. hush' = hush /\ timer' = 0 /\ poll' = poll /\ UNCHANGED <<eRcvState, events, failed>>
  BY <1>1, <1>2 DEF Tick, Max2
<1> QED
  BY <1>2, <1>3 DEF Tick, vars, rtu

\* A tick in which the timer does not expire.
LEMMA TickRuns ==
  ASSUME RtuTypes, RtuInv, Tick, ~InReply, timer # 1
  PROVE  RtuInv'
<1> USE DEF Receiving, Pending, Executing, Replying, Serving, Silent,
            tx, mb, line, history
<1>1. /\ poll \in {"blocked", "nap"} /\ (~Silent => hush > 0)
      /\ hush' = Max2(hush - 1, 0) /\ timer' = Max2(timer - 1, 0)
      /\ poll' = IF poll = "nap" THEN "get" ELSE poll
      /\ UNCHANGED <<eRcvState, events, failed, usRcvBufferPos, ucRTUBuf, tx, mb, line,
                     history, wire>>
  BY DEF Tick
<1>2. hush \in Nat /\ timer \in 0 .. T35
  BY DEF RtuTypes, TypeOK
<1>3. ~Pending /\ ~start /\ (Serving => "EXECUTE" \in events /\ poll = "nap")
  BY <1>1 DEF RtuInv, Apart, RtuTypes, Transmitter
<1>4. Starting' /\ NoAssertFails'
  BY <1>1 DEF RtuInv, Starting, NoAssertFails
<1>5. TimerRuns'
  BY <1>1, <1>2 DEF RtuInv, TimerRuns, Max2
<1>6. Opening'
  BY <1>1, <1>2, <1>3 DEF RtuInv, Opening, Max2
<1>7. Apart' /\ Checked'
  BY <1>1, <1>2 DEF RtuInv, Apart, Checked
<1>8. Quiet'
  BY <1>1, <1>2, <1>3 DEF RtuInv, Quiet, Max2
<1>9. Filling'
  BY <1>1, <1>3 DEF RtuInv, Filling
<1>10. Filled'
  BY <1>1, <1>3 DEF RtuInv, Filled, IsFrame
<1>11. InHand'
  BY <1>1, <1>3 DEF RtuInv, InHand
<1> QED
  BY <1>4, <1>5, <1>6, <1>7, <1>8, <1>9, <1>10, <1>11 DEF RtuInv

\* The last character of a frame is not in the buffer before the frame ends.
LEMMA NoEndInFrame ==
  ASSUME RtuTypes, Filling, ~Silent, Receiving
  PROVE  \A r \in Requests : ~IsFrame(usRcvBufferPos, "req", r)
<1> SUFFICES ASSUME NEW r \in Requests, IsFrame(usRcvBufferPos, "req", r) PROVE FALSE
  OBVIOUS
<1>1. /\ FrameLen \in 1 .. usRcvBufferPos
      /\ ucRTUBuf[FrameLen] = <<"req", r, FrameLen>>
  BY RtuAssumption DEF IsFrame, Parts
<1>2. FrameLen <= sent
  BY <1>1 DEF Filling
<1> QED
  BY <1>2, RtuAssumption DEF RtuTypes, TypeOK

\* A tick in which it does: the frame in the buffer is pending.
LEMMA TickExpires ==
  ASSUME RtuTypes, RtuInv, Tick, ~InReply, timer = 1
  PROVE  RtuInv'
<1> USE DEF Receiving, Pending, Executing, Replying, Serving, Silent
<1>1. /\ poll \in {"blocked", "nap"} /\ (~Silent => hush > 0)
      /\ hush' = Max2(hush - 1, 0) /\ timer' = Max2(timer - 1, 0)
      /\ T35Expired(IF poll = "nap" THEN "get" ELSE poll)
      /\ UNCHANGED <<usRcvBufferPos, ucRTUBuf, tx, mb, line, history, wire>>
  BY DEF Tick
<1>2. hush \in Nat /\ timer' = 0
  BY <1>1 DEF RtuTypes, TypeOK, Max2
<1>3. ~Serving /\ ~Pending /\ eRcvState # "IDLE" /\ events = {}
  BY <1>1, RtuAssumption DEF RtuInv, Apart, Quiet, TimerRuns, RtuTypes, Transmitter
<1>4. /\ eRcvState' = "IDLE" /\ ~failed'
      /\ Pending' => eRcvState = "RCV"
      /\ \/ poll' = "get" /\ events' \in {{}, {"FRAME_RECEIVED"}}
         \/ poll' \in {"blocked", "check", "pass"} /\ events' = {}
  <2>1. CASE eRcvState = "INIT"
    BY <1>1, <1>3, <2>1 DEF T35Expired, EventPost, Handler, RtuInv, Starting
  <2>2. CASE eRcvState = "RCV"
    BY <1>1, <1>3, <2>2 DEF T35Expired, EventPost, Handler
  <2>3. CASE eRcvState = "ERROR"
    BY <1>1, <1>3, <2>3 DEF T35Expired
  <2> QED
    BY <1>3, <2>1, <2>2, <2>3 DEF RtuTypes, TypeOK
<1>5. ~Serving' /\ start' = start /\ frame' = frame /\ sent' = sent
      /\ heard' = heard /\ owed' = owed /\ wire' = wire
  BY <1>1, <1>3, <1>4 DEF tx, line, history
<1>6. Starting' /\ NoAssertFails' /\ TimerRuns' /\ Apart' /\ Checked' /\ Filling'
  BY <1>2, <1>3, <1>4, <1>5 DEF Starting, NoAssertFails, TimerRuns, Apart, Checked, Filling
<1>7. Opening'
  <2>1. ASSUME ~Silent, sent = 0 PROVE whole /\ eRcvState = "INIT"
    BY <1>1, <1>2, <1>3, <2>1 DEF RtuInv, Opening, RtuTypes, TypeOK
  <2>2. whole' = whole
    BY <1>1 DEF line
  <2> QED
    BY <1>4, <1>5, <2>1, <2>2 DEF Opening
<1>8. Quiet'
  BY <1>1, <1>2, <1>4, <1>5 DEF RtuInv, TimerRuns, Quiet, Max2
<1>9. Filled'
  <2> SUFFICES ASSUME NEW r \in Requests, IsFrame(usRcvBufferPos, "req", r)', Pending'
               PROVE  (Silent /\ heard = r)'
    BY <1>4 DEF Filled
  <2>1. IsFrame(usRcvBufferPos, "req", r) /\ eRcvState = "RCV"
    BY <1>1, <1>4 DEF IsFrame
  <2>2. Silent
    BY <2>1, NoEndInFrame DEF RtuInv
  <2> QED
    BY <1>5, <2>1, <2>2 DEF RtuInv, Filled
<1>10. InHand'
  BY <1>1, <1>3, <1>5 DEF RtuInv, InHand
<1> QED
  BY <1>6, <1>7, <1>8, <1>9, <1>10 DEF RtuInv

LEMMA TickInv == ASSUME RtuTypes, RtuInv, Tick PROVE RtuInv'
<1>1. CASE InReply
  <2>1. UNCHANGED vars
    BY <1>1, TickInReply
  <2> QED
    BY <2>1 DEF vars, rtu, tx, mb, line, history, RtuInv, NoAssertFails, Starting,
                TimerRuns, Opening, Apart, Quiet, Filling, Filled, Checked, InHand,
                IsFrame, Receiving, Pending, Executing, Replying, Serving, Silent
<1>2. CASE ~InReply
  BY <1>2, TickRuns, TickExpires
<1> QED
  BY <1>1, <1>2

-----------------------------------------------------------------------------
(* The line.                                                                *)

LEMMA NewFrameInv == ASSUME RtuTypes, RtuInv, NewFrame PROVE RtuInv'
<1> USE DEF NewFrame, Receiving, Pending, Executing, Replying, Serving, Silent,
            rtu, tx, mb
<1>1. ~Serving /\ ~Pending /\ ~Receiving
  BY DEF RtuInv, Quiet, TimerRuns, RtuTypes, TypeOK
<1>2. Starting' /\ NoAssertFails' /\ TimerRuns' /\ Apart'
  BY <1>1 DEF RtuInv, Starting, NoAssertFails, TimerRuns, Apart
<1>3. Opening' /\ Quiet' /\ Filling' /\ Filled' /\ Checked'
  BY <1>1 DEF Opening, Quiet, Filling, Filled, Checked
<1>4. InHand'
  BY <1>1 DEF RtuInv, InHand
<1> QED
  BY <1>2, <1>3, <1>4 DEF RtuInv

\* During a frame the receiver takes what comes, and the poll is not at work.
LEMMA Ready ==
  ASSUME RtuTypes, RtuInv, ~Silent
  PROVE  /\ rxOn /\ eSndState = "IDLE" /\ ~Serving /\ wire = <<>> /\ poll # "accept"
         /\ Pending => \A r \in Requests : ~IsFrame(usRcvBufferPos, "req", r)
<1>1. ~Serving
  BY DEF RtuInv, Quiet
<1>2. Pending => \A r \in Requests : ~IsFrame(usRcvBufferPos, "req", r)
  BY DEF RtuInv, Filled
<1>3. poll # "accept"
  <2>1. poll = "accept" => Pending /\ checked \in Requests
                           /\ IsFrame(usRcvBufferPos, "req", checked)
    BY DEF RtuInv, Checked, Pending
  <2> QED
    BY <1>2, <2>1
<1>4. rxOn /\ eSndState = "IDLE" /\ wire = <<>>
  <2>1. ~start /\ poll # "rxoff"
    BY <1>1 DEF Serving, Replying
  <2> QED
    BY <2>1 DEF RtuTypes, TypeOK, Transmitter
<1> QED
  BY <1>1, <1>2, <1>3, <1>4

\* What a character c does.
Taken(c) ==
  \/ /\ eRcvState = "IDLE" /\ eRcvState' = "RCV" /\ usRcvBufferPos' = 1
     /\ ucRTUBuf' = [ucRTUBuf EXCEPT ![1] = c]
  \/ /\ eRcvState = "RCV" /\ eRcvState' = "RCV" /\ usRcvBufferPos < BufSize
     /\ usRcvBufferPos' = usRcvBufferPos + 1
     /\ ucRTUBuf' = [ucRTUBuf EXCEPT ![usRcvBufferPos + 1] = c]
  \/ /\ eRcvState \in {"RCV", "ERROR"} /\ eRcvState' = "ERROR"
     /\ UNCHANGED <<ucRTUBuf, usRcvBufferPos>>
  \/ eRcvState = "INIT" /\ UNCHANGED rtu

LEMMA Delivered ==
  ASSUME RtuTypes, RtuInv, ~Silent, NEW c \in Chars, Deliver(c)
  PROVE  Taken(c) /\ timer' = T35 /\ failed' = failed
BY Ready DEF Deliver, ReceiveFSM, RestartTimer, Begin, Store, Overrun, Taken, rtu

LEMMA CharPart == \A c \in Chars : c[3] \in Int
BY RtuAssumption DEF Chars, Junk, Parts

LEMMA TakenParts ==
  ASSUME RtuTypes, NEW n \in Nat, NEW c \in Chars, Taken(c), Receiving',
         c[1] = "req" => c[3] <= n,
         Receiving => \A k \in 1 .. usRcvBufferPos : ucRTUBuf[k][1] = "req" => ucRTUBuf[k][3] <= n
  PROVE  \A k \in 1 .. usRcvBufferPos' : ucRTUBuf'[k][1] = "req" => ucRTUBuf'[k][3] <= n
<1>1. CASE eRcvState = "IDLE"
  <2>1. usRcvBufferPos' = 1 /\ ucRTUBuf'[1] = c
    BY <1>1, RtuAssumption DEF Taken, RtuTypes, TypeOK
  <2> QED
    BY <2>1
<1>2. CASE eRcvState = "RCV" /\ eRcvState' = "RCV"
  <2>1. /\ usRcvBufferPos' = usRcvBufferPos + 1 /\ usRcvBufferPos \in 0 .. BufSize
        /\ ucRTUBuf'[usRcvBufferPos + 1] = c
        /\ \A k \in 1 .. usRcvBufferPos : ucRTUBuf'[k] = ucRTUBuf[k]
    BY <1>2, RtuAssumption DEF Taken, RtuTypes, TypeOK
  <2> QED
    BY <1>2, <2>1 DEF Receiving
<1>3. CASE eRcvState' = "ERROR"
  BY <1>3 DEF Taken, Receiving, rtu
<1> QED
  BY <1>1, <1>2, <1>3 DEF Taken, Receiving, rtu

\* What a step of the line leaves of the invariant, but for the buffer.
LEMMA LineKeeps ==
  ASSUME RtuTypes, RtuInv, ~Silent, ~failed,
         NEW c \in Chars,
         \/ Taken(c) /\ timer' = T35 /\ failed' = failed
         \/ Lose,
         UNCHANGED <<tx, mb, events, poll, wire, owed>>,
         Silent' => hush' = Patience, PatientMaster
  PROVE  NoAssertFails' /\ Starting' /\ TimerRuns' /\ Apart' /\ Quiet' /\ Checked' /\ InHand'
<1>1. ~Serving /\ wire = <<>> /\ poll # "accept"
  BY Ready
<1>2. ~Serving' /\ poll' = poll /\ events' = events /\ start' = start
  BY <1>1 DEF Serving, Executing, Replying, tx
<1>3. NoAssertFails'
  BY DEF NoAssertFails, Lose
<1>4. Starting'
  BY <1>2 DEF RtuInv, Starting, Taken, Lose, rtu
<1>5. TimerRuns'
  <2>1. timer \in 0 .. T35 /\ (eRcvState' = "IDLE" => eRcvState = "IDLE" /\ timer' = timer)
    BY DEF RtuTypes, TypeOK, Taken, Lose, rtu
  <2>2. Receiving' => timer' \in 1 .. T35
    <3>1. CASE Lose
      BY <2>1, <3>1 DEF RtuInv, TimerRuns, Receiving, Lose, rtu
    <3>2. CASE timer' = T35
      BY <3>2, RtuAssumption
    <3> QED
      BY <3>1, <3>2
  <2> QED
    BY <2>1, <2>2, RtuAssumption DEF RtuInv, TimerRuns, Receiving, PatientMaster
<1>6. Apart'
  BY <1>2, RtuAssumption DEF RtuInv, Apart, Lose
<1>7. Quiet'
  BY <1>1, <1>2, RtuAssumption DEF Quiet, PatientMaster, Serving, Executing
<1>8. Checked' /\ InHand'
  <2>1. Len(wire') = 0 /\ owed' = owed
    BY <1>1
  <2>2. ~Executing' /\ ~Replying' /\ poll' \notin {"xmit", "rxoff"} /\ ~start'
    BY <1>2 DEF Serving, Replying
  <2> QED
    BY <1>1, <1>2, <2>1, <2>2 DEF RtuInv, Checked, InHand, Serving
<1> QED
  BY <1>3, <1>4, <1>5, <1>6, <1>7, <1>8

LEMMA LineCharInv == ASSUME RtuTypes, RtuInv, PatientMaster, LineChar PROVE RtuInv'
<1> DEFINE good == <<"req", frame, sent + 1>>
<1>1. /\ ~Silent /\ ~failed /\ frame \in Requests /\ sent \in 0 .. FrameLen - 1
      /\ good \in Chars /\ Junk \in Chars
      /\ UNCHANGED <<tx, mb, events, poll, wire, owed>>
  BY LineChars, RtuAssumption DEF LineChar, Silent, RtuTypes, TypeOK, Parts
<1>2. \/ frame' = frame /\ sent' = sent + 1 /\ sent' < FrameLen
      \/ /\ Silent' /\ sent' = 0 /\ hush' = Patience /\ sent + 1 = FrameLen
         /\ whole' => heard' = frame
  BY <1>1, RtuAssumption DEF LineChar, Silent
<1>3. \/ Taken(good) /\ timer' = T35 /\ failed' = failed /\ whole' = whole
      \/ Taken(Junk) /\ timer' = T35 /\ failed' = failed /\ whole' = FALSE
      \/ Lose /\ whole' = FALSE
  BY <1>1, Delivered DEF LineChar
<1>4. NoAssertFails' /\ Starting' /\ TimerRuns' /\ Apart' /\ Quiet' /\ Checked' /\ InHand'
  BY <1>1, <1>2, <1>3, LineKeeps, RtuAssumption DEF Silent
<1>5. Opening'
  BY <1>1, <1>2, RtuAssumption DEF Opening, Silent
<1>6. ~Serving /\ Pending' = Pending
  BY <1>1, Ready DEF Pending
<1>7. Receiving /\ ~Silent =>
        \A k \in 1 .. usRcvBufferPos : ucRTUBuf[k][1] = "req" => ucRTUBuf[k][3] <= sent
  BY DEF RtuInv, Filling
\* Nothing in the buffer is past the character just sent.
<1>8. Receiving' =>
        \A k \in 1 .. usRcvBufferPos' : ucRTUBuf'[k][1] = "req" => ucRTUBuf'[k][3] <= sent + 1
  <2>1. Receiving => \A k \in 1 .. usRcvBufferPos :
                       ucRTUBuf[k][1] = "req" => ucRTUBuf[k][3] <= sent + 1
    <3>1. \A k \in 1 .. usRcvBufferPos : ucRTUBuf[k] \in Chars
      <4>1. usRcvBufferPos \in 0 .. BufSize /\ ucRTUBuf \in [1 .. BufSize -> Chars]
        BY DEF RtuTypes, TypeOK
      <4>2. \A k \in 1 .. usRcvBufferPos : k \in 1 .. BufSize
        BY <4>1, RtuAssumption
      <4> QED
        BY <4>1, <4>2
    <3>2. \A k \in 1 .. usRcvBufferPos : ucRTUBuf[k][3] \in Int
      BY <3>1, CharPart
    <3> QED
      BY <1>1, <1>7, <3>2
  <2>2. good[3] <= sent + 1 /\ Junk[1] # "req" /\ sent + 1 \in Nat
    BY <1>1 DEF Junk
  <2>3. CASE Lose
    BY <2>1, <2>3 DEF Lose, rtu, Receiving
  <2> QED
    BY <1>1, <1>3, <2>1, <2>2, <2>3, TakenParts
\* If all of the frame is there, it arrived as it was sent.
<1>9. ASSUME eRcvState' = "RCV", usRcvBufferPos' = sent + 1, NEW r \in Requests,
             \A k \in 1 .. sent + 1 : ucRTUBuf'[k] = <<"req", r, k>>
      PROVE  r = frame /\ whole' = whole /\ whole /\ ~Pending
  <2>1. ucRTUBuf'[sent + 1] = <<"req", r, sent + 1>>
    BY <1>1, <1>9
  <2>2. CASE Lose
    <3>1. sent + 1 \in 1 .. usRcvBufferPos /\ Receiving
          /\ ucRTUBuf[sent + 1] = <<"req", r, sent + 1>>
      BY <1>1, <1>9, <2>1, <2>2 DEF Lose, rtu, Receiving
    <3> QED
      BY <1>1, <1>7, <3>1
  <2>3. CASE Taken(Junk)
    BY <1>1, <1>9, <2>1, <2>3, RtuAssumption DEF Taken, Junk, RtuTypes, TypeOK, rtu
  <2>4. CASE Taken(good) /\ whole' = whole
    <3>1. ucRTUBuf'[sent + 1] = good
      BY <1>1, <1>9, <2>4, RtuAssumption DEF Taken, RtuTypes, TypeOK, rtu
    <3>2. r = frame
      BY <2>1, <3>1
    <3>3. CASE eRcvState = "IDLE"
      BY <1>1, <1>9, <2>4, <3>2, <3>3 DEF Taken, RtuInv, Opening
    <3>4. CASE eRcvState = "RCV" /\ usRcvBufferPos = sent
      <4>1. \A k \in 1 .. sent : ucRTUBuf[k] = <<"req", frame, k>>
        BY <1>1, <1>9, <2>4, <3>2, <3>4, RtuAssumption DEF Taken, RtuTypes, TypeOK
      <4> QED
        BY <1>1, <2>4, <3>2, <3>4, <4>1 DEF RtuInv, Filling, Receiving
    <3> QED
      BY <1>1, <1>9, <2>4, <3>3, <3>4 DEF Taken, RtuTypes, TypeOK, rtu
  <2> QED
    BY <1>3, <2>2, <2>3, <2>4
<1>10. Filling'
  <2> SUFFICES ASSUME ~Silent', Receiving' PROVE Filling'
    BY DEF Filling
  <2>1. frame' = frame /\ sent' = sent + 1
    BY <1>2
  <2>2. ASSUME eRcvState' = "RCV", usRcvBufferPos' = sent',
               \A k \in 1 .. sent' : ucRTUBuf'[k] = <<"req", frame', k>>
        PROVE  whole' /\ ~Pending'
    BY <1>1, <1>6, <1>9, <2>1, <2>2
  <2> QED
    BY <1>8, <2>1, <2>2 DEF Filling
<1>11. Filled'
  <2> SUFFICES ASSUME NEW r \in Requests, IsFrame(usRcvBufferPos, "req", r)'
               PROVE  /\ Silent' /\ Receiving' => eRcvState' = "RCV" /\ ~Pending' /\ heard' = r
                      /\ Pending' => Silent' /\ eRcvState' = "IDLE" /\ heard' = r
    BY DEF Filled
  <2>1. usRcvBufferPos' = FrameLen /\ \A k \in Parts : ucRTUBuf'[k] = <<"req", r, k>>
    BY DEF IsFrame
  <2>2. CASE Receiving'
    <3>1. sent + 1 = FrameLen
      <4>1. FrameLen \in Parts /\ FrameLen \in 1 .. usRcvBufferPos'
        BY <2>1, RtuAssumption DEF Parts
      <4>2. ucRTUBuf'[FrameLen] = <<"req", r, FrameLen>>
        BY <2>1, <4>1
      <4> QED
        BY <1>1, <1>8, <2>2, <4>1, <4>2, RtuAssumption
    <3>2. eRcvState' = "RCV"
      <4>1. ASSUME eRcvState' = "ERROR" PROVE FALSE
        <5>1. Receiving /\ UNCHANGED <<ucRTUBuf, usRcvBufferPos>>
          BY <1>3, <4>1 DEF Taken, Lose, rtu, Receiving
        <5>2. IsFrame(usRcvBufferPos, "req", r)
          BY <2>1, <5>1 DEF IsFrame
        <5> QED
          BY <1>1, <5>1, <5>2, NoEndInFrame DEF RtuInv
      <4> QED
        BY <2>2, <4>1 DEF Receiving
    <3>3. r = frame /\ whole' /\ ~Pending
      <4>1. \A k \in 1 .. sent + 1 : ucRTUBuf'[k] = <<"req", r, k>>
        BY <2>1, <3>1 DEF Parts
      <4> QED
        BY <1>9, <2>1, <3>1, <3>2, <4>1
    <3> QED
      BY <1>1, <1>2, <1>6, <3>1, <3>2, <3>3
  <2>3. CASE ~Receiving'
    <3>1. UNCHANGED <<ucRTUBuf, usRcvBufferPos>>
      BY <1>3, <2>3 DEF Taken, Lose, rtu, Receiving
    <3>2. IsFrame(usRcvBufferPos, "req", r)
      BY <2>1, <3>1 DEF IsFrame
    <3> QED
      BY <1>1, <1>6, <2>3, <3>2, Ready
  <2> QED
    BY <2>2, <2>3
<1> QED
  BY <1>4, <1>5, <1>10, <1>11 DEF RtuInv

LEMMA SpuriousInv == ASSUME RtuTypes, RtuInv, PatientMaster, Spurious PROVE RtuInv'
<1>1. /\ ~Silent /\ ~failed /\ Junk \in Chars /\ sent \in 0 .. FrameLen - 1
      /\ UNCHANGED <<tx, mb, events, poll, wire, owed>>
      /\ frame' = frame /\ sent' = sent /\ ~whole' /\ hush' = 1
      /\ Silent' = Silent
  BY LineChars DEF Spurious, Silent, history, RtuTypes, TypeOK
<1>2. Taken(Junk) /\ timer' = T35 /\ failed' = failed
  BY <1>1, Delivered DEF Spurious
<1>3. NoAssertFails' /\ Starting' /\ TimerRuns' /\ Apart' /\ Quiet' /\ Checked' /\ InHand'
  BY <1>1, <1>2, LineKeeps
<1>4. Pending' = Pending
  BY <1>1 DEF Pending
<1>5. Opening'
  BY <1>1, <1>2, <1>4, RtuAssumption DEF RtuInv, Opening, Taken, rtu
<1>6. Filling'
  <2>1. ASSUME Receiving' PROVE
          \A k \in 1 .. usRcvBufferPos' : ucRTUBuf'[k][1] = "req" => ucRTUBuf'[k][3] <= sent
    <3>1. Junk[1] # "req" /\ sent \in Nat
      BY <1>1 DEF Junk
    <3>2. Receiving => \A k \in 1 .. usRcvBufferPos :
                         ucRTUBuf[k][1] = "req" => ucRTUBuf[k][3] <= sent
      BY <1>1 DEF RtuInv, Filling
    <3> QED
      BY <1>1, <1>2, <2>1, <3>1, <3>2, TakenParts
  <2>2. ASSUME eRcvState' = "RCV" PROVE
          usRcvBufferPos' \in 1 .. BufSize /\ ucRTUBuf'[usRcvBufferPos'] = Junk
    BY <1>2, <2>2, RtuAssumption DEF Taken, rtu, RtuTypes, TypeOK
  <2>3. ASSUME eRcvState' = "RCV", usRcvBufferPos' = sent,
               \A k \in 1 .. sent : ucRTUBuf'[k] = <<"req", frame, k>>
        PROVE  FALSE
    BY <2>2, <2>3 DEF Junk
  <2> QED
    BY <1>1, <2>1, <2>3 DEF Filling
<1>7. Filled'
  <2> SUFFICES ASSUME NEW r \in Requests, IsFrame(usRcvBufferPos, "req", r)', Pending'
               PROVE  FALSE
    BY <1>1 DEF Filled
  <2>1. usRcvBufferPos' = FrameLen /\ \A k \in Parts : ucRTUBuf'[k] = <<"req", r, k>>
    BY DEF IsFrame
  <2>2. RtuTypes'
    BY LineTypes
  <2>3. CASE Receiving'
    BY <1>1, <1>6, <2>2, <2>3, NoEndInFrame DEF RtuTypes, TypeOK, Filling,
       Receiving, Parts, IsFrame
  <2>4. CASE ~Receiving'
    <3>1. UNCHANGED <<ucRTUBuf, usRcvBufferPos>>
      BY <1>2, <2>4 DEF Taken, rtu, Receiving
    <3>2. IsFrame(usRcvBufferPos, "req", r)
      BY <2>1, <3>1 DEF IsFrame
    <3> QED
      BY <1>1, <1>4, <3>2, Ready
  <2> QED
    BY <2>3, <2>4
<1> QED
  BY <1>3, <1>5, <1>6, <1>7 DEF RtuInv

-----------------------------------------------------------------------------
LEMMA InvInit == Init => RtuInv
BY RtuAssumption
   DEF Init, RtuInv, NoAssertFails, Starting, TimerRuns, Opening, Apart, Quiet, Filling,
       Filled, Checked, InHand, Receiving, Pending, Executing, Replying, Serving, Silent,
       IsFrame

LEMMA InvStutter == RtuInv /\ UNCHANGED vars => RtuInv'
BY DEF vars, rtu, tx, mb, line, history, RtuInv, NoAssertFails, Starting,
       TimerRuns, Opening, Apart, Quiet, Filling, Filled, Checked, InHand,
       IsFrame, Receiving, Pending, Executing, Replying, Serving, Silent

LEMMA InvStep == RtuTypes /\ RtuInv /\ PatientMaster /\ [Next]_vars => RtuInv'
BY TickInv, NewFrameInv, LineCharInv, SpuriousInv, EnableInv, GetInv, PassInv, CheckInv,
   AcceptInv, ExecuteInv, SendInv, BuildInv, XmitInv, TransmitInv, InvStutter
   DEF Next, PollStep

LEMMA RtuSafe == PatientMaster => (Spec => [](RtuTypes /\ RtuInv))
<1>1. RtuTypes /\ [Next]_vars => RtuTypes'
  BY TickTypes, LineTypes, PollTypes, TransmitTypes, StutterTypes DEF Next
<1> SUFFICES ASSUME PatientMaster PROVE Spec => [](RtuTypes /\ RtuInv)
  OBVIOUS
<1>2. RtuTypes /\ RtuInv /\ [Next]_vars => RtuInv'
  BY InvStep
<1> QED
  BY TypesInit, InvInit, <1>1, <1>2, PTL DEF Spec

\* With a patient master no assertion of mbrtu.c fails: the race between a
\* character and the start of the reply (mbrtu.c:196-213) is not met.
THEOREM AssertionsHold == PatientMaster => (Spec => []NoAssertFails)
<1>1. RtuInv => NoAssertFails
  BY DEF RtuInv
<1> QED
  BY RtuSafe, <1>1, PTL

\* Two events are never pending together (portevent.c:52): the end of a frame is
\* posted when the poll has taken the event of the last one.
THEOREM EventsNeverMeet == PatientMaster => (Spec => []EventsApart)
<1>1. RtuInv => EventsApart
  BY DEF RtuInv, Apart, EventsApart
<1> QED
  BY RtuSafe, <1>1, PTL

-----------------------------------------------------------------------------
(* Nobody waits in vain.                                                    *)

\* A receiver that has been started comes back to idle when the timer expires.
ComesBack == eRcvState # "IDLE" => timer > 0 \/ poll = "enable"

LEMMA ComesBackStep == RtuTypes /\ ComesBack /\ [Next]_vars => ComesBack'
<1> SUFFICES ASSUME RtuTypes, ComesBack, [Next]_vars PROVE ComesBack'
  OBVIOUS
<1> USE RtuAssumption
    DEF ComesBack, RtuTypes, TypeOK, rtu, tx, mb, line, history
<1>1. ASSUME NEW c, Deliver(c), poll' = poll PROVE ComesBack'
  BY <1>1 DEF Deliver, ReceiveFSM, RestartTimer
<1>2. CASE Tick
  <2>1. CASE timer = 1
    BY <1>2, <2>1 DEF Tick, T35Expired
  <2>2. CASE timer # 1
    BY <1>2, <2>2 DEF Tick, Max2
  <2> QED
    BY <2>1, <2>2
<1>3. CASE LineChar \/ Spurious
  BY <1>1, <1>3 DEF LineChar, Spurious, Lose
<1>4. CASE PollStep
  <2>1. CASE PollEnable
    BY <2>1 DEF PollEnable
  <2>2. CASE ~PollEnable
    <3>1. /\ UNCHANGED <<eRcvState, timer>> /\ poll # "enable"
      BY <1>4, <2>2 DEF PollStep, At, PollGet, PollPass, PollCheck, PollAccept,
         PollExecute, PollSend, PollBuild, PollXmit, PollRxOff
    <3> QED
      BY <3>1
  <2> QED
    BY <2>1, <2>2
<1>5. CASE NewFrame \/ TransmitFSM \/ UNCHANGED vars
  BY <1>5 DEF NewFrame, TransmitFSM, vars
<1> QED
  BY <1>2, <1>3, <1>4, <1>5 DEF Next

\* With a patient master nobody waits for what does not come: no event is taken
\* at the wrong place, no receiver left without its timer (mbrtu.c:322-356,
\* mb.c:356-411).  What HeardIsTaken and TakenIsDone need besides is fairness.
THEOREM NothingForgotten == PatientMaster => (Spec => []NobodyWaitsInVain)
<1>1. Init => ComesBack
  BY DEF Init, ComesBack
<1>2. RtuTypes /\ RtuInv /\ ComesBack => NobodyWaitsInVain
  BY DEF RtuTypes, TypeOK, Transmitter, RtuInv, Apart, InHand, Serving, Executing, Replying,
     ComesBack, NobodyWaitsInVain
<1> QED
  BY RtuSafe, ComesBackStep, <1>1, <1>2, PTL DEF Spec

-----------------------------------------------------------------------------
(* The slave keeps the promise of ModbusServer.                             *)

Stays == UNCHANGED <<heard, owed, start \/ poll \in {"send", "build", "xmit", "rxoff"},
                     applied, answer>>

LEMMA LineHears ==
  ASSUME RtuTypes, RtuTypes', NewFrame \/ LineChar \/ Spurious
  PROVE  Server!Hear
BY DEF NewFrame, LineChar, Spurious, Server!Hear, tx, history, RtuTypes, TypeOK

LEMMA PollStays ==
  ASSUME RtuTypes, RtuInv, RtuInv',
         Tick \/ PollEnable \/ PollGet \/ PollPass \/ PollCheck \/ PollXmit \/ PollRxOff
           \/ PollBuild \/ PollSend
  PROVE  Stays
<1> USE DEF Stays, At, history, tx
<1>1. ASSUME Tick PROVE Stays
  <2>1. CASE InReply
    BY <1>1, <2>1, TickInReply DEF vars
  <2>2. CASE ~InReply
    <3>1. poll \in {"blocked", "nap"} /\ UNCHANGED <<history, tx>>
      BY <1>1, <2>2 DEF Tick
    <3>2. poll' \in {"blocked", "get", "pass", "check"}
      <4>1. CASE timer = 1
        BY <1>1, <3>1, <4>1 DEF Tick, T35Expired, EventPost, Handler
      <4>2. CASE timer # 1
        BY <1>1, <3>1, <4>2 DEF Tick
      <4> QED
        BY <4>1, <4>2
    <3> QED
      BY <3>1, <3>2
  <2> QED
    BY <2>1, <2>2
<1>2. ASSUME PollEnable PROVE Stays
  BY <1>2 DEF PollEnable
<1>3. ASSUME PollGet PROVE Stays
  <2>1. poll' \in {"blocked", "pass", "check", "execute"}
    BY <1>3, HandlerType DEF PollGet, RtuTypes, TypeOK
  <2> QED
    BY <1>3, <2>1 DEF PollGet
<1>4. ASSUME PollPass \/ PollCheck PROVE Stays
  BY <1>4 DEF PollPass, PollCheck
<1>5. ASSUME PollXmit \/ PollRxOff \/ PollBuild PROVE Stays
  BY <1>5 DEF PollXmit, PollRxOff, PollBuild
<1>6. ASSUME PollSend PROVE Stays
  <2>1. eRcvState = "IDLE"
    BY <1>6 DEF PollSend, RtuInv, Quiet, Serving, Replying
  <2> QED
    BY <1>6, <2>1 DEF PollSend
<1> QED
  BY <1>1, <1>2, <1>3, <1>4, <1>5, <1>6

LEMMA AcceptIs ==
  ASSUME RtuTypes, RtuInv, PollAccept
  PROVE  Server!Accept \/ Stays
<1> USE DEF PollAccept, At, tx
<1>1. /\ checked \in Requests /\ IsFrame(usRcvBufferPos, "req", checked)
      /\ heard = checked
  BY DEF RtuInv, Checked, Filled, Pending
<1>2. ucRcvAddress' = AddrOf[checked]
  BY <1>1, RtuAssumption DEF IsFrame, AddrIn, Parts
<1>3. owed = None
  <2>1. ~Serving
    BY DEF RtuInv, Apart, Serving, Executing, Replying
  <2> QED
    BY <2>1 DEF RtuInv, InHand
<1>4. CASE AddrOf[checked] = "other"
  BY <1>2, <1>4 DEF Stays
<1>5. CASE AddrOf[checked] # "other"
  BY <1>1, <1>2, <1>3, <1>5 DEF Server!Accept
<1> QED
  BY <1>4, <1>5

LEMMA ExecuteIs ==
  ASSUME RtuTypes, RtuInv, PollExecute
  PROVE  Server!Apply
<1> USE DEF PollExecute, At, tx
<1>1. /\ owed \in Requests /\ ucRcvAddress = AddrOf[owed] /\ usLength = FrameLen
      /\ AddrOf[owed] # "other"
      /\ \A i \in Parts : ucRTUBuf[i] = <<"req", owed, i>>
  BY DEF RtuInv, InHand, Serving, Executing
<1>2. 2 \in PDU /\ PDU \subseteq Parts
  BY RtuAssumption DEF PDU, Parts
<1>3. \A r \in Requests : (\A i \in PDU : ucRTUBuf[i] = <<"req", r, i>>) <=> r = owed
  BY <1>1, <1>2
<1>4. InBuffer = owed
  BY <1>1, <1>3 DEF InBuffer
<1>5. owed # None /\ AddrOf[owed] \in {"us", "all"}
  BY <1>1, RtuAssumption
<1> QED
  BY <1>1, <1>4, <1>5 DEF Server!Apply

LEMMA TransmitIs ==
  ASSUME RtuTypes, RtuInv, TransmitFSM
  PROVE  Server!Answer \/ Stays
<1> USE DEF TransmitFSM
<1>1. /\ owed \in Requests /\ start /\ poll = "pass" /\ eRcvState = "IDLE"
      /\ \A i \in Parts : ucRTUBuf[i] = <<"rep", owed, i>>
      /\ \A i \in 1 .. Len(wire) : wire[i] = ucRTUBuf[i]
      /\ Len(wire) + usSndBufferCount = FrameLen
  BY DEF RtuInv, InHand, Quiet, Serving, Replying, RtuTypes, Transmitter
<1>2. CASE PutChar
  BY <1>1, <1>2 DEF PutChar, Stays
<1>3. CASE Finish
  <2>1. Len(wire) = FrameLen /\ wire \in Seq(Chars)
    BY <1>1, <1>3 DEF Finish, RtuTypes, TypeOK
  <2>2. \A i \in Parts : wire[i] = <<"rep", owed, i>>
    BY <1>1, <2>1 DEF Parts
  <2>3. wire = [i \in Parts |-> <<"rep", owed, i>>]
    <3>1. wire = [i \in Parts |-> wire[i]]
      BY <2>1 DEF Parts
    <3> QED
      BY <2>2, <3>1
  <2>4. \A r \in Requests : wire = [i \in Parts |-> <<"rep", r, i>>] => r = owed
    <3>1. 1 \in Parts
      BY RtuAssumption DEF Parts
    <3> QED
      BY <2>2, <3>1
  <2>5. Reply = owed
    BY <1>1, <2>3, <2>4 DEF Reply
  <2>6. owed # None
    BY <1>1, RtuAssumption
  <2> QED
    BY <1>1, <1>3, <2>5, <2>6 DEF Finish, Server!Answer
<1> QED
  BY <1>1, <1>2, <1>3

\* With a patient master the slave, its one buffer and its events implement
\* ModbusServer: a request that was heard whole is executed once and as it was
\* sent, and the reply is the reply to it (mb.c:336-412, mbrtu.c:150-320).
THEOREM KeepsPromise == PatientMaster => (Spec => ImplementsServer)
<1>1. Init => Server!ServerInit
  BY DEF Init, Server!ServerInit
<1>2. RtuTypes /\ RtuInv /\ RtuTypes' /\ RtuInv' /\ [Next]_vars
        => [Server!ServerNext]_(Server!mVars)
  <2> SUFFICES ASSUME RtuTypes, RtuInv, RtuTypes', RtuInv', [Next]_vars
               PROVE  Server!ServerNext \/ Stays
    BY DEF Stays, Server!mVars
  <2>1. CASE NewFrame \/ LineChar \/ Spurious
    BY <2>1, LineHears DEF Server!ServerNext
  <2>2. CASE UNCHANGED vars
    BY <2>2 DEF vars, Stays, tx, history
  <2> QED
    BY <2>1, <2>2, PollStays, AcceptIs, ExecuteIs, TransmitIs
       DEF Next, PollStep, Server!ServerNext
<1> SUFFICES ASSUME PatientMaster PROVE Spec => ImplementsServer
  OBVIOUS
<1> QED
  BY <1>1, <1>2, RtuSafe, PTL DEF Spec, ImplementsServer, Server!ServerSpec
=============================================================================
