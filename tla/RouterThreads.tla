---------------------------- MODULE RouterThreads ----------------------------
(***************************************************************************)
(* The threads of the router around its two bounded queues: dispatch, from *)
(* every producer to the dispatch thread, and tx_buffer, from whoever has  *)
(* something for a sensor to the SPI thread, which also feeds dispatch.    *)
(*                                                                         *)
(* Where a thread can wait is kept, what the packets say is not: a queue   *)
(* is the number of packets in it (Dispatch shows that its calls are       *)
(* atomic), a handler is the sequence of blocking calls it makes.          *)
(***************************************************************************)
EXTENDS Integers, Sequences

CONSTANTS
  DispatchCapacity,  \* packets the dispatch queue can hold
  TxCapacity,        \* packets tx_buffer can hold
  MaxGoodbyes,       \* bound: devices that one command disconnects
  Timers             \* bound: the timer threads that run

ASSUME CapacityAssumption ==
  /\ DispatchCapacity \in Nat \ {0} /\ TxCapacity \in Nat \ {0}
  /\ MaxGoodbyes \in Nat
  /\ Timers \subseteq {"heartbeat", "fly"}

Callers == {"dispatch", "main"} \cup Timers

VARIABLES
  queued,            \* packets in the dispatch queue
  tx_buffer,         \* packets for the radio
  wait_on_slave,     \* semaphore: reasons to use the SPI line
  slave_ready,       \* the pin is low: the radio has a packet
  transfer_lock,     \* is it held?
  spi,               \* where the SPI thread is
  todo,              \* the calls a thread has ahead, in order
  dispatching,       \* where the dispatch thread is between two handlers
  dispatch_pause,
  dumping_dispatch

lineVars == <<wait_on_slave, slave_ready>>
spiVars  == <<transfer_lock, spi>>
optVars  == <<dispatch_pause, dumping_dispatch>>
vars == <<queued, tx_buffer, lineVars, spiVars, todo, dispatching, optVars>>

(* main: the Hatch is in the queue before the threads start.               *)
Init ==
  /\ queued = 1
  /\ tx_buffer = 0
  /\ wait_on_slave = 0
  /\ slave_ready = FALSE
  /\ transfer_lock = FALSE
  /\ spi = "pin"
  /\ todo = [t \in Callers |-> <<>>]
  /\ dispatching = "dequeue"
  /\ dispatch_pause = FALSE
  /\ dumping_dispatch = FALSE

-----------------------------------------------------------------------------
(* Calls that may block, by any thread but the SPI thread.                 *)

queueEnqueue == <<"enqueue">>
(* Mutant of sgSerialSend: the SPI thread is not woken.                    *)
sgSerialSendOnly == <<"send">>

sgSerialSend == <<"send", "post">>

Goodbyes(n) == [k \in 1 .. 2 * n |-> IF k % 2 = 1 THEN "send" ELSE "post"]

Idle(t)     == todo[t] = <<>>
At(t, call) == todo[t] # <<>> /\ Head(todo[t]) = call
Does(t, calls) == todo' = [todo EXCEPT ![t] = calls]

(* queueEnqueue(dispatch, ...)                                             *)
Enqueue(t) ==
  /\ At(t, "enqueue")
  /\ queued < DispatchCapacity
  /\ queued' = queued + 1
  /\ Does(t, Tail(todo[t]))
  /\ UNCHANGED <<tx_buffer, lineVars, spiVars, dispatching, optVars>>

(* sgSerialSend: the packet is in tx_buffer before the semaphore is posted.*)
Send(t) ==
  /\ At(t, "send")
  /\ tx_buffer < TxCapacity
  /\ tx_buffer' = tx_buffer + 1
  /\ Does(t, Tail(todo[t]))
  /\ UNCHANGED <<queued, lineVars, spiVars, dispatching, optVars>>

Post(t) ==
  /\ At(t, "post")
  /\ wait_on_slave' = wait_on_slave + 1
  /\ Does(t, Tail(todo[t]))
  /\ UNCHANGED <<queued, tx_buffer, slave_ready, spiVars, dispatching, optVars>>

Call(t) == Enqueue(t) \/ Send(t) \/ Post(t)

-----------------------------------------------------------------------------
(* The SPI thread: sgSerialReceive again and again.                        *)

SpiAt(place) == spi = place /\ UNCHANGED <<todo, dispatching, optVars>>
SpiTo(place) == spi' = place

(* A call of sgSerialReceive starts with                                   *)
(*   while (sem_trywait(&wait_on_slave) == 0);                             *)
(* here the last thing the call before does: nobody can tell.              *)
SpiStart ==
  /\ SpiTo("pin")
  /\ wait_on_slave' = 0

(* Mutant of SpiReadPin: only the queue is looked at again.                *)
SpiReadNoPin ==
  /\ SpiAt("pin")
  /\ SpiTo("size")
  /\ UNCHANGED <<queued, tx_buffer, lineVars, transfer_lock>>

SpiReadPin ==
  /\ SpiAt("pin")
  /\ SpiTo(IF slave_ready THEN "take" ELSE "size")
  /\ UNCHANGED <<queued, tx_buffer, lineVars, transfer_lock>>

SpiReadSize ==
  /\ SpiAt("size")
  /\ SpiTo(IF tx_buffer > 0 THEN "take" ELSE "wait")
  /\ UNCHANGED <<queued, tx_buffer, lineVars, transfer_lock>>

SpiWait ==
  /\ SpiAt("wait")
  /\ wait_on_slave > 0
  /\ wait_on_slave' = wait_on_slave - 1
  /\ SpiTo("take")
  /\ UNCHANGED <<queued, tx_buffer, slave_ready, transfer_lock>>

SpiTransfers == SpiTo("transfer") /\ UNCHANGED wait_on_slave

(* queueTryDequeue(tx_buffer); without a packet NO_DATA is sent.  Then the *)
(* lock is taken and the device opened; if that fails the function returns *)
(* with the lock held, the packet is freed, and the next round waits at    *)
(* "lock" for itself.                                                      *)
SpiTake ==
  /\ SpiAt("take")
  /\ tx_buffer' = IF tx_buffer > 0 THEN tx_buffer - 1 ELSE 0
  /\ IF transfer_lock THEN SpiTo("lock") /\ UNCHANGED wait_on_slave
     ELSE SpiTransfers \/ SpiStart
  /\ transfer_lock' = TRUE
  /\ UNCHANGED <<queued, slave_ready>>

(* Both ways at once: the radio gives up its packet if it has one.         *)
SpiTransfer ==
  /\ SpiAt("transfer")
  /\ SpiTo(IF slave_ready THEN "deliver" ELSE "settle")
  /\ slave_ready' = FALSE
  /\ UNCHANGED <<queued, tx_buffer, wait_on_slave, transfer_lock>>

(* queueEnqueue(dispatch, sgSerialCP(...)), with the lock held.            *)
SpiDeliver ==
  /\ SpiAt("deliver")
  /\ queued < DispatchCapacity
  /\ queued' = queued + 1
  /\ SpiTo("settle")
  /\ UNCHANGED <<tx_buffer, lineVars, transfer_lock>>

(* Mutant of SpiSettle: waits without a second look at pin and queue.      *)
SpiSettleThenWait ==
  /\ SpiAt("settle")
  /\ transfer_lock' = FALSE
  /\ SpiTo("wait")
  /\ wait_on_slave' = 0
  /\ UNCHANGED <<queued, tx_buffer, slave_ready>>

(* At most three seconds for the radio, then the lock is released.         *)
SpiSettle ==
  /\ SpiAt("settle")
  /\ transfer_lock' = FALSE
  /\ SpiStart
  /\ UNCHANGED <<queued, tx_buffer, slave_ready>>

Serial == \/ SpiReadPin \/ SpiReadSize \/ SpiWait \/ SpiTake
          \/ SpiTransfer \/ SpiDeliver \/ SpiSettle

(* The radio at the other end of the line pulls the pin (external), and    *)
(* the interrupt posts.                                                    *)
sgSerialSlaveSending ==
  /\ ~ slave_ready
  /\ slave_ready' = TRUE
  /\ wait_on_slave' = wait_on_slave + 1
  /\ UNCHANGED <<queued, tx_buffer, spiVars, todo, dispatching, optVars>>

-----------------------------------------------------------------------------
(* The dispatch thread.  What a handler may do that blocks: packets for    *)
(* the sensor, and first of all the notice that a stale device is back.    *)
(* A device that is refused is sent two packets.                           *)

HandlerCalls == {<<>>, Goodbyes(1), Goodbyes(2), queueEnqueue, queueEnqueue \o sgSerialSend}

DispatchAt(place) ==
  dispatching = place /\ Idle("dispatch") /\ UNCHANGED <<tx_buffer, lineVars, spiVars>>

DispatchDequeue ==
  /\ DispatchAt("dequeue")
  /\ queued > 0
  /\ queued' = queued - 1
  /\ dispatching' = "check"
  /\ UNCHANGED <<todo, optVars>>

(* while (dispatch_pause), then the packet is handled, or dropped with the *)
(* others if the queue is to be dumped.                                    *)
DispatchCheck ==
  /\ DispatchAt("check")
  /\ ~ dispatch_pause
  /\ \/ dumping_dispatch /\ dispatching' = "dump" /\ UNCHANGED todo
     \/ /\ ~ dumping_dispatch
        /\ dispatching' = "dequeue"
        /\ \E calls \in HandlerCalls : Does("dispatch", calls)
  /\ UNCHANGED <<queued, optVars>>

(* do queueDequeue ... while (queueSize(dispatch) > 0)                     *)
DispatchDump ==
  /\ DispatchAt("dump")
  /\ queued > 0
  /\ queued' = queued - 1
  /\ \/ queued > 1 /\ UNCHANGED <<dispatching, dumping_dispatch>>
     \/ queued = 1 /\ dispatching' = "dequeue" /\ dumping_dispatch' = FALSE
  /\ UNCHANGED <<todo, dispatch_pause>>

Dispatcher == DispatchDequeue \/ DispatchCheck \/ DispatchDump

-----------------------------------------------------------------------------
(* The other producers.                                                    *)

Starts(t, calls) ==
  /\ Idle(t)
  /\ Does(t, calls)
  /\ UNCHANGED <<queued, tx_buffer, lineVars, spiVars, dispatching>>

(* The heartbeat thread: a ping, a notice if the status of the device      *)
(* changed, and its disconnection if it is lost.  The fly thread: a Fly.   *)
TimerCalls(t) ==
  IF t = "fly" THEN {queueEnqueue}
  ELSE {queueEnqueue, queueEnqueue \o queueEnqueue,
        queueEnqueue \o queueEnqueue \o sgSerialSend}

TimerTurn(t) ==
  /\ ~ dispatch_pause
  /\ \E calls \in TimerCalls(t) : Starts(t, calls)
  /\ UNCHANGED optVars

InsertPacket == Starts("main", queueEnqueue) /\ UNCHANGED optVars

(* drop <rdid> and drop all                                                *)
DropDevice ==
  /\ \E n \in 1 .. MaxGoodbyes : Starts("main", Goodbyes(n))
  /\ UNCHANGED optVars

(* Mutant of DropQueue: the socket thread empties the queue by itself.     *)
DropQueueItself ==
  /\ Idle("main")
  /\ queued' = 0
  /\ dispatch_pause' = FALSE
  /\ UNCHANGED <<tx_buffer, lineVars, spiVars, todo, dispatching, dumping_dispatch>>

DropQueue ==
  /\ Starts("main", <<>>)
  /\ dumping_dispatch' = TRUE
  /\ dispatch_pause' = FALSE

PauseDispatch ==
  Starts("main", <<>>) /\ dispatch_pause' = TRUE /\ UNCHANGED dumping_dispatch

ResumeDispatch ==
  Starts("main", <<>>) /\ dispatch_pause' = FALSE /\ UNCHANGED dumping_dispatch

Next ==
  \/ Serial \/ sgSerialSlaveSending
  \/ Dispatcher \/ \E t \in Callers : Call(t)
  \/ \E t \in Timers : TimerTurn(t)
  \/ InsertPacket \/ DropDevice \/ DropQueue \/ PauseDispatch \/ ResumeDispatch

(* A thread that can run does, and one that waits for room is not          *)
(* overtaken for ever: the other callers come by timers and commands.      *)
(* Nobody has to call, and nothing has to arrive.                          *)
Spec == /\ Init /\ [][Next]_vars
        /\ WF_vars(Serial) /\ WF_vars(Dispatcher)
        /\ \A t \in Callers : SF_vars(Call(t))

-----------------------------------------------------------------------------
TypeOK ==
  /\ queued \in 0 .. DispatchCapacity /\ tx_buffer \in 0 .. TxCapacity
  /\ wait_on_slave \in Nat
  /\ slave_ready \in BOOLEAN /\ transfer_lock \in BOOLEAN
  /\ spi \in {"pin", "size", "wait", "take", "lock", "transfer", "deliver", "settle"}
  /\ todo \in [Callers -> Seq({"enqueue", "send", "post"})]
  /\ dispatching \in {"dequeue", "check", "dump"}
  /\ dispatch_pause \in BOOLEAN /\ dumping_dispatch \in BOOLEAN

(* Four ways to hang: the dispatch thread waits for room in its own queue; *)
(* it waits for room in tx_buffer while the SPI thread waits for room in   *)
(* dispatch; the SPI thread waits for the lock it kept when the device did *)
(* not open; the router is paused and its main thread, which could resume  *)
(* it, waits for room for a packet.                                        *)
SelfJam  == At("dispatch", "enqueue") /\ queued = DispatchCapacity
CycleJam == /\ At("dispatch", "send") /\ tx_buffer = TxCapacity
            /\ spi = "deliver" /\ queued = DispatchCapacity
LockJam  == transfer_lock /\ spi \in {"pin", "size", "wait", "take", "lock"}

PauseJam == /\ dispatch_pause /\ dispatching = "check" /\ queued = DispatchCapacity
            /\ \/ At("main", "enqueue")
               \/ At("main", "send") /\ tx_buffer = TxCapacity /\ spi = "deliver"

Jammed == SelfJam \/ CycleJam \/ LockJam \/ PauseJam

(* None of the four ever ends, whatever radio, server, timers and operator *)
(* do, "drop queue" and "resume" included (payload_handlers.c:129,         *)
(* sg_serial_rpi.c:325 and :342, sansgrid_daemon.c:160).                   *)
JamsLast ==
  [][/\ SelfJam => SelfJam'
     /\ CycleJam => CycleJam'
     /\ LockJam => LockJam'
     /\ PauseJam => PauseJam']_vars

(* The SPI thread never sleeps on a reason to run: a pin that is low, or a *)
(* packet in tx_buffer that nobody is about to post for                    *)
(* (sg_serial_rpi.c:297-300).                                              *)
NoLostWakeup ==
  spi = "wait" /\ wait_on_slave = 0 =>
    /\ ~ slave_ready
    /\ tx_buffer > 0 => \E t \in Callers : At(t, "post")

(* A packet in the dispatch queue is followed by a moment at which the     *)
(* dispatch thread has just taken one, unless the router is paused or      *)
(* jammed for ever: these are the only ways to hang (main.c:74-150).       *)
PacketsAreTaken ==
  (queued > 0) ~> (dispatching \in {"check", "dump"} \/ dispatch_pause \/ Jammed)

(* A packet for or from the radio is followed by a transfer, unless the    *)
(* dispatch queue has no room for what the last transfer brought           *)
(* (sg_serial_rpi.c:274-371).                                              *)
LineIsServed ==
  (slave_ready \/ tx_buffer > 0) ~>
    \/ spi = "transfer" \/ LockJam
    \/ spi = "deliver" /\ queued = DispatchCapacity
=============================================================================
