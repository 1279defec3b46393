---------------------------- MODULE MessageQueue ----------------------------
(***************************************************************************)
(* syslib::MessageQueue                                                    *)
(* (src/components/system/sources/platform/message_queue/                  *)
(* sys_message_queue.cpp): the queue through which every thread reaches    *)
(* the main loop.  Each member function is one critical section of its     *)
(* mutex, so each is one operator here; a sleeper of condition.Wait is in  *)
(* asleep until NotifyAll, or the system for no reason, takes it out.      *)
(*                                                                         *)
(* A message is a record whose field id is the id of its handler.  The     *)
(* module is open: the modules that extend it say who calls what.          *)
(***************************************************************************)
EXTENDS Naturals, Sequences

VARIABLES messages,                  \* messages pushed and not yet popped
          handlers,                  \* ids of the registered handlers
          was_empty_message_pushed,  \* WaitMessage is to return at once
          asleep                     \* threads inside condition.Wait

queueVars == <<messages, handlers, was_empty_message_pushed, asleep>>

QueueInit(registered) ==
  /\ messages = <<>>
  /\ handlers = registered
  /\ was_empty_message_pushed = FALSE
  /\ asleep = {}

RegisterHandler(h) ==
  /\ handlers' = handlers \cup {h}
  /\ UNCHANGED <<messages, was_empty_message_pushed, asleep>>

UnregisterHandler(h) ==
  /\ handlers' = handlers \ {h}
  /\ UNCHANGED <<messages, was_empty_message_pushed, asleep>>

\* Only the first message wakes the sleeper.
PushMessage_Silent(m) ==  \* (fault) condition.NotifyAll is forgotten
  /\ messages' = Append(messages, m)
  /\ UNCHANGED <<handlers, was_empty_message_pushed, asleep>>
PushMessage(m) ==
  /\ messages' = Append(messages, m)
  /\ asleep' = IF messages = <<>> THEN {} ELSE asleep
  /\ UNCHANGED <<handlers, was_empty_message_pushed>>

\* Wakes the sleeper without a message.
PushEmptyMessage ==
  IF messages = <<>>
    THEN /\ was_empty_message_pushed' = TRUE
         /\ asleep' = {}
         /\ UNCHANGED <<messages, handlers>>
    ELSE UNCHANGED queueVars

\* The critical section of DispatchFirstMessage; m is dispatched after it,
\* if its handler was still registered.
PopMessage(m) ==
  /\ messages # <<>>
  /\ m = Head(messages)
  /\ messages' = Tail(messages)
  /\ UNCHANGED <<handlers, was_empty_message_pushed, asleep>>

\* WaitMessage: the loop around condition.Wait, and the return.
CanReturn == messages # <<>> \/ was_empty_message_pushed

WaitSleep(t) ==
  /\ t \notin asleep
  /\ ~CanReturn
  /\ asleep' = asleep \cup {t}
  /\ UNCHANGED <<messages, handlers, was_empty_message_pushed>>

WaitReturn_KeepsFlag(t) ==  \* (fault) the flag is not reset
  t \notin asleep /\ CanReturn /\ UNCHANGED queueVars
WaitReturn(t) ==
  /\ t \notin asleep
  /\ CanReturn
  /\ was_empty_message_pushed' = FALSE
  /\ UNCHANGED <<messages, handlers, asleep>>

\* A condition variable may wake its sleeper for no reason.
SpuriousWakeup(t) ==
  /\ t \in asleep
  /\ asleep' = asleep \ {t}
  /\ UNCHANGED <<messages, handlers, was_empty_message_pushed>>

\* Nobody sleeps on a message, or on an empty message, that was pushed: the
\* notification of PushMessage, sent for the first message only, is enough.
NoSleepOnMessages == asleep # {} => ~CanReturn
=============================================================================
