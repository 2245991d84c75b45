------------------------------ MODULE Channel ------------------------------
(***************************************************************************)
(* What queues promise.  Each is a bounded buffer of messages, first in    *)
(* first out; senders wait while it is full and their messages follow, in  *)
(* the order they came; receivers wait while it is empty and are given the *)
(* next messages, in the order they came.  outcome[t] is what the call t   *)
(* has made will return: a wait ends in success or in OSS_ERROR_TO, and    *)
(* whoever has given up neither sends nor receives any more.  As in Lock,  *)
(* a waiter may give up at any step, also at one of another channel.       *)
(***************************************************************************)
EXTENDS Naturals, SequencesExt

CONSTANTS Tasks, Messages, None, Capacity, Channels

VARIABLE channel  \* channel[l]: buffer, senders, receivers and outcome

Empty ==
    [buffer |-> <<>>, senders |-> <<>>, receivers |-> <<>>,
     outcome |-> [t \in Tasks |-> None]]

Init == channel = [l \in Channels |-> Empty]

Sent == [status |-> "SUCCESS", value |-> None]
Received(m) == [status |-> "SUCCESS", value |-> m]
TimedOut == [status |-> "TO", value |-> None]
Refused == [status |-> "MEM", value |-> None]

(***************************************************************************)
(* What can become of a channel c in a step: the next d.                   *)
(***************************************************************************)

\* s, or what is left of it when one waiter gives up.
AtMostOneLeaves(s) == {s} \cup {RemoveAt(s, i) : i \in 1 .. Len(s)}

\* c with another outcome, and with these waiters or one less.
Waiting(c, senders, receivers, outcome) ==
    {[c EXCEPT !.senders = s, !.receivers = receivers, !.outcome = outcome] :
        s \in AtMostOneLeaves(senders)}
    \cup
    {[c EXCEPT !.senders = senders, !.receivers = r, !.outcome = outcome] :
        r \in AtMostOneLeaves(receivers)}

\* m goes to the first receiver or into the buffer; told is what the other
\* calls will return.
Accept(c, d, m, told) ==
    \/ /\ c.receivers # <<>>
       /\ d \in Waiting(c, c.senders, Tail(c.receivers),
                        [told EXCEPT ![Head(c.receivers)] = Received(m)])
    \/ /\ c.receivers = <<>>
       /\ Len(c.buffer) < Capacity
       /\ d = [c EXCEPT !.buffer = Append(@, m), !.outcome = told]

Send(c, d, t, m) ==
    /\ c.outcome[t] = None
    /\ Accept(c, d, m, [c.outcome EXCEPT ![t] = Sent])

SendFromInterrupt(c, d, m) == Accept(c, d, m, c.outcome)

SendLater(c, d, t, m) ==
    /\ c.outcome[t] = None
    /\ Len(c.buffer) = Capacity
    /\ d \in Waiting(c, Append(c.senders, [task |-> t, message |-> m]), c.receivers,
                     [c.outcome EXCEPT ![t] = TimedOut])

\* The oldest message is received, and the first sender takes its room.
Receive(c, d, t) ==
    LET told == [c.outcome EXCEPT ![t] = Received(Head(c.buffer))]
        rest == Tail(c.buffer)
    IN  /\ c.outcome[t] = None
        /\ c.buffer # <<>>
        /\ \/ /\ c.senders = <<>>
              /\ d = [c EXCEPT !.buffer = rest, !.outcome = told]
           \/ /\ c.senders # <<>>
              /\ d \in Waiting([c EXCEPT !.buffer = Append(rest, Head(c.senders).message)],
                               Tail(c.senders), c.receivers,
                               [told EXCEPT ![Head(c.senders).task] = Sent])

ReceiveLater(c, d, t) ==
    /\ c.outcome[t] = None
    /\ c.buffer = <<>>
    /\ d \in Waiting(c, c.senders, Append(c.receivers, t), [c.outcome EXCEPT ![t] = TimedOut])

\* A call that does not wait finds the buffer full, or empty.
Refuse(c, d, t) ==
    /\ c.outcome[t] = None
    /\ Len(c.buffer) \in {0, Capacity}
    /\ d = [c EXCEPT !.outcome[t] = Refused]

\* The call returns to t, who waits no more.
Return(c, d, t) ==
    /\ c.outcome[t] # None
    /\ t \notin ToSet(c.receivers) \cup {s.task : s \in ToSet(c.senders)}
    /\ d = [c EXCEPT !.outcome[t] = None]

GiveUp(c, d) == d \in Waiting(c, c.senders, c.receivers, c.outcome)

Changes(c, d) ==
    \/ GiveUp(c, d)
    \/ \E t \in Tasks, m \in Messages : Send(c, d, t, m) \/ SendLater(c, d, t, m)
    \/ \E m \in Messages : SendFromInterrupt(c, d, m)
    \/ \E t \in Tasks :
           Receive(c, d, t) \/ ReceiveLater(c, d, t) \/ Refuse(c, d, t) \/ Return(c, d, t)

Next ==
    /\ DOMAIN channel' = Channels
    /\ \A l \in Channels : Changes(channel[l], channel'[l])

Spec == Init /\ [][Next]_channel

=============================================================================
