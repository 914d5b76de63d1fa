---------------------------- MODULE MCCcrControl ----------------------------
(* Small instances of CcrControl: two intensity levels, one or two register *)
(* writes in flight, and the command sources a run is about.                *)
EXTENDS CcrControl

None == {}

Boot(onOff, mode, level) ==
  [r \in RegNames |-> CASE r = "on_off"    -> onOff
                        [] r = "ctrl_mode" -> mode
                        [] r = "intensity" -> level
                        [] OTHER           -> 0]

\* The defaults of i2c_app.c:34-43, and what a saved image may hold.
DefaultBoot == {Boot(0, 1, 1)}
LocalBoots  == {Boot(0, 1, level) : level \in 0 .. 2}

Write(first, values) == [first |-> first, values |-> values]

OnOffWrites == {Write(0, <<v>>) : v \in {0, 1}}
\* A level; an order in a write that runs past the command registers, so that it
\* wakes nobody; and the run status.
OtherWrites == {Write(2, <<1>>), Write(0, <<1, 1, 1, 0>>), Write(30, <<0>>)}

CommandRequests == OnOffWrites \cup OtherWrites

\* The defaults, and an image saved after an order to close.
OrderBoots == {Boot(0, 1, 1), Boot(1, 1, 1)}

\* What can bear on orders: no guard, no other variable's next value and no property
\* of that run reads ref, the angle or orders.last, so that states which differ in
\* these alone are one state of the run.
BearsOnOrders == <<pin, reg, pidEnable, sem, onOffLast, orders.unheard,
                   orders.crossed, pc, panel, mb, shLevel, behind>>
=============================================================================
