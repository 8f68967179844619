------------------------------ MODULE KillSwitch ------------------------------
(***************************************************************************)
(* The platform's emergency stop (risk-service/kill.switch.ts): a flag     *)
(* cached in every worker, kept in one BrokerSetting row and announced on  *)
(* a Redis control channel.  A change is written to the cache, the row and *)
(* the channel in turn, each after its own await.  A message is the state  *)
(* the sender's cache has when it publishes, and reaches every worker, the *)
(* sender too, in the order of the channel.                                *)
(***************************************************************************)
EXTENDS Integers, FiniteSets, Sequences

CONSTANTS
    Servers,
    MaxToggles,     \* changes administrators ask for
    MaxSwitchFaults \* failed writes and reads, lost messages, restarts

VARIABLES
    halted,         \* worker -> its cached flag
    row,            \* BrokerSetting row "kill_switch"; no row is a flag down
    change,         \* worker -> the change its admin's request is making
    channel,        \* worker -> messages on their way to it
    ordered,        \* the flag of the last change, set when it starts
    muddled,        \* history: changes overlapped, or something failed
    toggles,
    switchFaults

switchVars == <<halted, row, change, channel, ordered, muddled, toggles, switchFaults>>

Calm == [pc |-> "none", on |-> FALSE]
SwitchFault == switchFaults < MaxSwitchFaults /\ switchFaults' = switchFaults + 1

SwitchInit ==
    /\ halted = [w \in Servers |-> FALSE]
    /\ row = FALSE
    /\ change = [w \in Servers |-> Calm]
    /\ channel = [w \in Servers |-> <<>>]
    /\ ordered = FALSE
    /\ muddled = FALSE
    /\ toggles = 0
    /\ switchFaults = 0

InTransit == \E w \in Servers : change[w] # Calm \/ channel[w] # <<>>

\* activate() and deactivate() up to the write of the row, which takes the
\* value the cache has at that moment.
Toggle(w, on) ==
    /\ toggles < MaxToggles
    /\ toggles' = toggles + 1
    /\ change[w] = Calm
    /\ halted' = [halted EXCEPT ![w] = on]
    /\ change' = [change EXCEPT ![w] = [pc |-> "writing", on |-> on]]
    /\ ordered' = on
    /\ muddled' = (muddled \/ InTransit)
    /\ UNCHANGED <<row, channel, switchFaults>>

Written(w) ==
    /\ change[w].pc = "writing"
    /\ row' = change[w].on
    /\ change' = [change EXCEPT ![w].pc = "publishing"]
    /\ UNCHANGED <<halted, channel, ordered, muddled, toggles, switchFaults>>

\* A failed upsert is the request's error: nothing is published.
WriteFails(w) ==
    /\ change[w].pc = "writing"
    /\ SwitchFault
    /\ change' = [change EXCEPT ![w] = Calm]
    /\ muddled' = TRUE
    /\ UNCHANGED <<halted, row, channel, ordered, toggles>>

SilentAnnounce(w) == channel
Announce(w) == [v \in Servers |-> Append(channel[v], halted[w])]

Publish(w) ==
    /\ change[w].pc = "publishing"
    /\ \/ channel' = Announce(w) /\ UNCHANGED <<muddled, switchFaults>>
       \/ SwitchFault /\ muddled' = TRUE /\ UNCHANGED channel
    /\ change' = [change EXCEPT ![w] = Calm]
    /\ UNCHANGED <<halted, row, ordered, toggles>>

Sync(w) ==
    /\ channel[w] # <<>>
    /\ halted' = [halted EXCEPT ![w] = Head(channel[w])]
    /\ channel' = [channel EXCEPT ![w] = Tail(@)]
    /\ UNCHANGED <<row, change, ordered, muddled, toggles, switchFaults>>

\* A worker starts again: load() reads the row, and a failed read leaves the
\* flag down.  Messages sent while it was away are not for it.
Reload(w) ==
    /\ SwitchFault
    /\ \/ halted' = [halted EXCEPT ![w] = row] /\ muddled' = (muddled \/ InTransit)
       \/ halted' = [halted EXCEPT ![w] = FALSE] /\ muddled' = TRUE
    /\ change' = [change EXCEPT ![w] = Calm]
    /\ channel' = [channel EXCEPT ![w] = <<>>]
    /\ UNCHANGED <<row, ordered, toggles>>

SwitchNext ==
    \E w \in Servers :
        \/ \E on \in BOOLEAN : Toggle(w, on)
        \/ Written(w)
        \/ WriteFails(w)
        \/ Publish(w)
        \/ Sync(w)
        \/ Reload(w)
---------------------------------------------------------------------------
\* When nothing is under way, every worker and the row have the flag the last
\* change asked for, restarts included, unless changes overlapped or a write,
\* a message or a read was lost.
StopReachesAll ==
    (~InTransit /\ ~muddled) =>
        /\ \A w \in Servers : halted[w] = ordered
        /\ row = ordered
==============================================================================
