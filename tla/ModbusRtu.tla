------------------------------ MODULE ModbusRtu ------------------------------
(***************************************************************************)
(* The FreeModbus slave on its RS485 line: the receive and the transmit    *)
(* state machine of mbrtu.c, the 3.5-character timer, the events between   *)
(* them and the thread that polls, eMBPoll, and the thread that sends.     *)
(* They share one buffer, for the request and for its reply.               *)
(*                                                                         *)
(* Interrupts: the receive interrupt and the tick have the same priority,  *)
(* so each is atomic; ENTER_CRITICAL_SECTION is a semaphore and stops      *)
(* neither.  Threads: "slave trans" (10) runs before md_s_poll (11), and   *)
(* PutByte waits for the line: the poll rests until the reply is out.      *)
(*                                                                         *)
(* A frame is an address, a PDU and a CRC, and the CRC is taken to be      *)
(* perfect.  On the line characters are lost and garbled, and others come  *)
(* between them; after its frame the master is silent for Patience ticks,  *)
(* or until it has the reply.                                              *)
(***************************************************************************)
EXTENDS Integers, Sequences

CONSTANTS
  Requests,
  AddrOf,      \* the address of each: "us", "all" or "other"
  FrameLen,    \* characters of a frame, of a reply too
  BufSize,     \* MB_SER_PDU_SIZE_MAX
  T35,         \* ticks of the 3.5-character timer (3 in the code)
  Patience,    \* ticks of silence after a frame that gets no reply
  None, Mixed  \* no request; what is not a request of the master

ASSUME RtuAssumption ==
  /\ AddrOf \in [Requests -> {"us", "all", "other"}]
  /\ None \notin Requests /\ Mixed \notin Requests /\ None # Mixed
  /\ FrameLen \in Nat /\ FrameLen >= 3
  /\ BufSize \in Nat /\ BufSize >= FrameLen
  /\ T35 \in Nat /\ T35 >= 2
  /\ Patience \in Nat /\ Patience > T35

Parts == 1 .. FrameLen
PDU   == 2 .. FrameLen - 1

\* A character: of a request or of the reply to it, or garbled.
Junk  == <<"junk", Mixed, 0>>
Chars == ({"req", "rep"} \X (Requests \cup {Mixed}) \X Parts) \cup {Junk}

EventTypes  == {"READY", "FRAME_RECEIVED", "EXECUTE", "FRAME_SENT"}
Handler == [READY |-> "pass", FRAME_RECEIVED |-> "check", EXECUTE |-> "execute",
            FRAME_SENT |-> "pass"]

VARIABLES
  \* mbrtu.c
  eRcvState, eSndState, ucRTUBuf, usRcvBufferPos, usSndBufferCount,
  \* the port: receive interrupt on; ticks left of the timer, 0 when stopped;
  \* the event set; EVENT_SERIAL_TRANS_START; an assertion has failed
  rxOn, timer, events, start, failed,
  \* mb.c: where the poll is, and its static variables
  poll, ucRcvAddress, usLength,
  \* the line: the frame being sent, characters of it sent, all of them received
  \* as they were sent; ticks the line stays silent; the reply sent so far
  frame, sent, whole, hush, wire,
  \* history, the variables of ModbusServer; checked: the frame that passed
  heard, checked, owed, applied, answer

rtu     == <<eRcvState, usRcvBufferPos, ucRTUBuf>>
tx      == <<eSndState, usSndBufferCount, start, rxOn>>
mb      == <<ucRcvAddress, usLength>>
line    == <<frame, sent, whole>>
history == <<heard, checked, owed, applied, answer>>
vars    == <<rtu, tx, mb, line, history, timer, events, failed, poll, hush, wire>>

Silent  == frame = None
InReply == wire # <<>>
Max2(a, b) == IF a > b THEN a ELSE b

Init ==
  /\ eRcvState = "INIT" /\ eSndState = "IDLE"
  /\ ucRTUBuf = [i \in 1 .. BufSize |-> Junk]
  /\ usRcvBufferPos = 0 /\ usSndBufferCount = 0
  /\ rxOn = TRUE /\ timer = 0 /\ events = {} /\ start = FALSE /\ failed = FALSE
  /\ poll = "enable" /\ ucRcvAddress = "other" /\ usLength = 0
  /\ frame = None /\ sent = 0 /\ whole = FALSE /\ hush = 0 /\ wire = <<>>
  /\ heard = None /\ checked = None /\ owed = None
  /\ applied = None /\ answer = None

-----------------------------------------------------------------------------
(* Events, and the timer.                                                   *)

EventPost_NotWaiting(e, p) == poll' = p /\ events' = IF p = "blocked" THEN events
                                                   ELSE events \cup {e}

\* rt_event_send, with the poll at p: a poll that waits has the event at once.
EventPost(e, p) ==
  IF p = "blocked" THEN poll' = Handler[e] /\ UNCHANGED events
                   ELSE poll' = p /\ events' = events \cup {e}

\* xMBRTUTimerT35Expired.
T35Expired(p) ==
  /\ failed' = (eRcvState = "IDLE")
  /\ eRcvState' = "IDLE"
  /\ IF eRcvState = "INIT" THEN EventPost("READY", p)
     ELSE IF eRcvState = "RCV" THEN EventPost("FRAME_RECEIVED", p)
     ELSE poll' = p /\ UNCHANGED events

\* The poll and the reply leave time for a tick when they wait.  During a frame
\* a tick passes between two characters at most.
Tick ==
  /\ ~failed
  /\ poll \in {"blocked", "nap"} \/ InReply
  /\ ~Silent => hush > 0
  /\ hush' = IF InReply THEN hush ELSE Max2(hush - 1, 0)
  /\ timer' = Max2(timer - 1, 0)
  /\ LET p == IF poll = "nap" THEN "get" ELSE poll IN
       IF timer = 1 THEN T35Expired(p)
                  ELSE poll' = p /\ UNCHANGED <<eRcvState, events, failed>>
  /\ UNCHANGED <<usRcvBufferPos, ucRTUBuf, tx, mb, line, history, wire>>

-----------------------------------------------------------------------------
(* The line and the receive interrupt.                                      *)

\* vMBPortTimersEnable.
RestartTimer_Short == timer' = 1

RestartTimer == timer' = T35

\* The first character of a frame, the next ones, and one too many.
Begin(c) == /\ eRcvState = "IDLE"
            /\ ucRTUBuf' = [ucRTUBuf EXCEPT ![1] = c]
            /\ usRcvBufferPos' = 1
            /\ eRcvState' = "RCV"

Store_PastEnd(c) == /\ eRcvState = "RCV" /\ usRcvBufferPos <= BufSize
                    /\ ucRTUBuf' = [ucRTUBuf EXCEPT ![usRcvBufferPos + 1] = c]
                    /\ usRcvBufferPos' = usRcvBufferPos + 1
                    /\ UNCHANGED eRcvState

Store(c) == /\ eRcvState = "RCV" /\ usRcvBufferPos < BufSize
            /\ ucRTUBuf' = [ucRTUBuf EXCEPT ![usRcvBufferPos + 1] = c]
            /\ usRcvBufferPos' = usRcvBufferPos + 1
            /\ UNCHANGED eRcvState

Overrun == /\ eRcvState = "RCV" /\ usRcvBufferPos >= BufSize
           /\ eRcvState' = "ERROR"
           /\ UNCHANGED <<ucRTUBuf, usRcvBufferPos>>

\* xMBRTUReceiveFSM with character c: before the start of the first frame, and
\* in a damaged one, it only restarts the timer.
ReceiveFSM(c) ==
  IF eSndState # "IDLE"
  THEN failed' = TRUE /\ UNCHANGED <<rtu, timer>>
  ELSE /\ UNCHANGED failed
       /\ RestartTimer
       /\ \/ Begin(c) \/ Store(c) \/ Overrun
          \/ eRcvState \in {"INIT", "ERROR"} /\ UNCHANGED rtu

Deliver(c) == IF rxOn THEN ReceiveFSM(c) ELSE UNCHANGED <<rtu, timer, failed>>
Lose       == UNCHANGED <<rtu, timer, failed>>

NewFrame ==
  /\ ~failed /\ Silent /\ hush = 0 /\ ~InReply
  /\ frame' \in Requests
  /\ sent' = 0 /\ whole' = TRUE /\ hush' = 1
  /\ heard' = None
  /\ UNCHANGED <<rtu, tx, mb, timer, events, failed, poll, wire, checked, owed,
                 applied, answer>>

\* The next character arrives, arrives garbled or is lost.
LineChar ==
  /\ ~failed /\ ~Silent
  /\ \/ Deliver(<<"req", frame, sent + 1>>) /\ whole' = whole
     \/ Deliver(Junk) /\ whole' = FALSE
     \/ Lose /\ whole' = FALSE
  /\ IF sent + 1 < FrameLen
     THEN sent' = sent + 1 /\ hush' = 1 /\ UNCHANGED <<frame, heard>>
     ELSE /\ frame' = None /\ sent' = 0 /\ hush' = Patience
          /\ heard' = IF whole' THEN frame ELSE None
  /\ UNCHANGED <<tx, mb, events, poll, wire, checked, owed, applied, answer>>

\* A disturbance that looks like a character.
Spurious ==
  /\ ~failed /\ ~Silent
  /\ Deliver(Junk)
  /\ whole' = FALSE /\ hush' = 1
  /\ UNCHANGED <<tx, mb, frame, sent, history, events, poll, wire>>

-----------------------------------------------------------------------------
(* eMBEnable, and eMBPoll in the loop of mb_slave_poll.                     *)

At(label) == ~failed /\ ~start /\ poll = label

\* eMBRTUStart.
PollEnable ==
  /\ At("enable")
  /\ eRcvState' = "INIT" /\ rxOn' = TRUE /\ timer' = T35
  /\ poll' = "get"
  /\ UNCHANGED <<usRcvBufferPos, ucRTUBuf, eSndState, usSndBufferCount, start, mb,
                 line, history, events, failed, hush, wire>>

PollGet_NoClear ==
  /\ At("get")
  /\ poll' \in IF events = {} THEN {"blocked"} ELSE {Handler[e] : e \in events}
  /\ UNCHANGED <<rtu, tx, mb, line, history, timer, events, failed, hush, wire>>

\* xMBPortEventGet takes all the events there are; eEvent is not assigned when
\* there are several.
PollGet ==
  /\ At("get")
  /\ \/ /\ events = {}
        /\ poll' = "blocked"
     \/ /\ events # {}
        /\ poll' \in IF \E e \in events : events = {e}
                     THEN {Handler[e] : e \in events}
                     ELSE {"pass", "check", "execute"}
  /\ events' = {}
  /\ UNCHANGED <<rtu, tx, mb, line, history, timer, failed, hush, wire>>

PollPass ==
  /\ At("pass")
  /\ poll' = "nap"
  /\ UNCHANGED <<rtu, tx, mb, line, history, timer, events, failed, hush, wire>>

IsFrame(n, kind, r) == n = FrameLen /\ \A i \in Parts : ucRTUBuf[i] = <<kind, r, i>>
CrcGood(n)          == \E r \in Requests : IsFrame(n, "req", r)

\* eMBRTUReceive: the length and the CRC ...
PollCheck ==
  /\ At("check")
  /\ IF CrcGood(usRcvBufferPos)
     THEN /\ poll' = "accept"
          /\ checked' = CHOOSE r \in Requests : IsFrame(usRcvBufferPos, "req", r)
     ELSE poll' = "nap" /\ UNCHANGED checked
  /\ UNCHANGED <<rtu, tx, mb, line, timer, events, failed, hush, wire, heard, owed,
                 applied, answer>>

AddrIn(c) == IF c[1] = "req" /\ c[2] \in Requests /\ c[3] = 1 THEN AddrOf[c[2]]
             ELSE "other"

\* ... then the address and the length, read again, and who the frame is for.
PollAccept ==
  /\ At("accept")
  /\ ucRcvAddress' = AddrIn(ucRTUBuf[1])
  /\ usLength' = usRcvBufferPos
  /\ poll' = "nap" /\ checked' = None
  /\ IF ucRcvAddress' # "other"
     THEN /\ events' = events \cup {"EXECUTE"}
          /\ owed' = checked /\ applied' = None /\ answer' = None
          /\ heard' = IF heard = checked THEN None ELSE heard
     ELSE UNCHANGED <<events, owed, applied, answer, heard>>
  /\ UNCHANGED <<rtu, tx, line, timer, failed, hush, wire>>

\* The request whose PDU is in the buffer.
InBuffer == IF \E r \in Requests : /\ usLength = FrameLen
                                   /\ \A i \in PDU : ucRTUBuf[i] = <<"req", r, i>>
            THEN CHOOSE r \in Requests : \A i \in PDU : ucRTUBuf[i] = <<"req", r, i>>
            ELSE Mixed

\* The handler executes what the buffer holds and puts its reply there.
PollExecute ==
  /\ At("execute")
  /\ applied' = InBuffer
  /\ ucRTUBuf' = [i \in 1 .. BufSize |->
                    IF i \in PDU THEN <<"rep", InBuffer, i>> ELSE ucRTUBuf[i]]
  /\ IF ucRcvAddress = "all" THEN poll' = "nap" /\ owed' = None
                             ELSE poll' = "send" /\ UNCHANGED owed
  /\ UNCHANGED <<eRcvState, usRcvBufferPos, tx, mb, line, timer, events, failed, hush,
                 wire, heard, checked, answer>>

\* eMBRTUSend: no reply when the receiver is not idle any more.
PollSend ==
  /\ At("send")
  /\ IF eRcvState = "IDLE" THEN poll' = "build" /\ UNCHANGED owed
                           ELSE poll' = "nap" /\ owed' = None
  /\ UNCHANGED <<rtu, tx, mb, line, timer, events, failed, hush, wire, heard, checked,
                 applied, answer>>

\* Address and CRC of the reply ...
PollBuild ==
  /\ At("build")
  /\ ucRTUBuf' = [i \in 1 .. BufSize |->
                    IF i \in {1, FrameLen} THEN <<"rep", ucRTUBuf[2][2], i>>
                                           ELSE ucRTUBuf[i]]
  /\ usSndBufferCount' = FrameLen
  /\ poll' = "xmit"
  /\ UNCHANGED <<eRcvState, usRcvBufferPos, eSndState, start, rxOn, mb, line,
                 history, timer, events, failed, hush, wire>>

\* ... the transmitter ...
PollXmit ==
  /\ At("xmit")
  /\ eSndState' = "XMIT"
  /\ poll' = "rxoff"
  /\ UNCHANGED <<rtu, usSndBufferCount, start, rxOn, mb, line, history, timer, events,
                 failed, hush, wire>>

PollRxOff_NoStart ==
  /\ At("rxoff")
  /\ rxOn' = FALSE /\ poll' = "pass"
  /\ UNCHANGED <<rtu, eSndState, usSndBufferCount, start, mb, line, history, timer,
                 events, failed, hush, wire>>

\* ... and vMBPortSerialEnable(FALSE, TRUE), upon which slave trans runs.
PollRxOff ==
  /\ At("rxoff")
  /\ rxOn' = FALSE /\ start' = TRUE
  /\ poll' = "pass"
  /\ UNCHANGED <<rtu, eSndState, usSndBufferCount, mb, line, history, timer, events,
                 failed, hush, wire>>

PollStep == \/ PollEnable \/ PollGet \/ PollPass \/ PollCheck \/ PollAccept
            \/ PollExecute \/ PollSend \/ PollBuild \/ PollXmit \/ PollRxOff

-----------------------------------------------------------------------------
(* serial_soft_trans_irq and xMBRTUTransmitFSM.                             *)

Reply == IF \E r \in Requests : wire = [i \in Parts |-> <<"rep", r, i>>]
         THEN CHOOSE r \in Requests : wire = [i \in Parts |-> <<"rep", r, i>>]
         ELSE Mixed

PutChar ==
  /\ usSndBufferCount # 0
  /\ wire' = Append(wire, ucRTUBuf[Len(wire) + 1])
  /\ usSndBufferCount' = usSndBufferCount - 1
  /\ UNCHANGED <<eSndState, start, rxOn, events, hush, owed, answer>>

Finish_StillXmit ==
  /\ usSndBufferCount = 0
  /\ events' = events \cup {"FRAME_SENT"}
  /\ rxOn' = TRUE /\ start' = FALSE
  /\ answer' = Reply /\ owed' = None
  /\ wire' = <<>> /\ hush' = IF Silent THEN 0 ELSE hush
  /\ UNCHANGED <<eSndState, usSndBufferCount>>

\* FRAME_SENT, then vMBPortSerialEnable(TRUE, FALSE): the line may be used again.
Finish ==
  /\ usSndBufferCount = 0
  /\ events' = events \cup {"FRAME_SENT"}
  /\ eSndState' = "IDLE" /\ rxOn' = TRUE /\ start' = FALSE
  /\ answer' = Reply /\ owed' = None
  /\ wire' = <<>> /\ hush' = IF Silent THEN 0 ELSE hush
  /\ UNCHANGED usSndBufferCount

TransmitFSM ==
  /\ ~failed /\ start
  /\ IF eRcvState # "IDLE"
     THEN /\ failed' = TRUE
          /\ UNCHANGED <<tx, events, hush, wire, owed, answer>>
     ELSE UNCHANGED failed /\ (PutChar \/ Finish)
  /\ UNCHANGED <<rtu, mb, line, timer, poll, heard, checked, applied>>

Next == Tick \/ NewFrame \/ LineChar \/ Spurious \/ PollStep \/ TransmitFSM

Spec == Init /\ [][Next]_vars

\* Time passes, and the threads that can run do: in the time of a tick the poll
\* and slave trans, which only pid_ctrl comes before, have the processor.
FairSpec == Spec /\ WF_vars(Tick) /\ WF_vars(PollStep) /\ WF_vars(TransmitFSM)

-----------------------------------------------------------------------------
TypeOK ==
  /\ eRcvState \in {"INIT", "IDLE", "RCV", "ERROR"}
  /\ eSndState \in {"IDLE", "XMIT"}
  /\ ucRTUBuf \in [1 .. BufSize -> Chars]
  /\ usRcvBufferPos \in 0 .. BufSize /\ usSndBufferCount \in 0 .. FrameLen
  /\ rxOn \in BOOLEAN /\ start \in BOOLEAN /\ failed \in BOOLEAN
  /\ timer \in 0 .. T35 /\ events \subseteq EventTypes
  /\ poll \in {"enable", "get", "blocked", "pass", "check", "accept", "execute",
               "send", "build", "xmit", "rxoff", "nap"}
  /\ ucRcvAddress \in {"us", "all", "other"} /\ usLength \in 0 .. BufSize
  /\ frame \in Requests \cup {None} /\ sent \in 0 .. FrameLen - 1
  /\ whole \in BOOLEAN /\ hush \in 0 .. Patience
  /\ wire \in Seq(Chars) /\ Len(wire) <= FrameLen
  /\ heard \in Requests \cup {None} /\ checked \in Requests \cup {None}
  /\ owed \in Requests \cup {None}
  /\ applied \in Requests \cup {None, Mixed} /\ answer \in Requests \cup {None, Mixed}

\* The assertions of mbrtu.c hold (156, 229, 288, 346): a character does not find
\* the transmitter at work, nor the transmitter a receiver that is not idle, nor
\* the timer one that is.  An assertion that fails stops the controller.
NoAssertFails == ~failed

\* Two events are never pending together: portevent.c:52 matches no case then.
EventsApart == \A e, f \in events : e = f

\* A whole request that the receiver took is taken in hand, and one that is in
\* hand is done with, however the characters and the ticks fall.
HeardIsTaken ==
  \A r \in Requests :
    heard = r /\ AddrOf[r] # "other" /\ eRcvState = "RCV" ~> owed = r
TakenIsDone == owed # None ~> owed = None

\* Nobody waits for what does not come: a receiver that is not idle has the timer
\* running, a transmitter at work is started, a request in hand has its event or
\* the poll, and the poll sleeps only when there is no event (mbrtu.c:126-139,
\* 196-213, 322-356, mb.c:356-411).
NobodyWaitsInVain ==
  /\ eRcvState # "IDLE" => timer > 0 \/ poll = "enable"
  /\ eSndState # "IDLE" => start \/ poll = "rxoff"
  /\ owed # None => \/ start \/ "EXECUTE" \in events
                     \/ poll \in {"execute", "send", "build", "xmit", "rxoff"}
  /\ poll = "blocked" => events = {}

Server == INSTANCE ModbusServer WITH
            Ours     <- {r \in Requests : AddrOf[r] # "other"},
            Answered <- {r \in Requests : AddrOf[r] = "us"},
            done     <- start \/ poll \in {"send", "build", "xmit", "rxoff"}

\* Buffer, timer and events implement the promise of ModbusServer.
ImplementsServer == Server!ServerSpec
=============================================================================
