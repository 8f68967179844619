------------------------------- MODULE Notices -------------------------------
(***************************************************************************)
(* What people are told: the notices of the clients                        *)
(* (notification-service/notification.router.ts), the alerts of the        *)
(* operators (alerting/alert.manager.ts), the tickets of the support desk  *)
(* (support.service.ts) and the lists of symbols a client watches          *)
(* (watchlist.service.ts).  Four parts that share no state; each has its   *)
(* variables, its initial states and its steps.                            *)
(***************************************************************************)
EXTENDS Integers, FiniteSets

CONSTANTS
    News, Changers,             \* events with a notice; requests that change preferences
    MaxNoticeFaults,
    Desks, Incidents, AlertOf,  \* workers; incident -> its type and severity
    DedupWindow, MaxClock5,     \* in ticks
    Agents, MaxStatusChanges,
    Visits, Tickers, Favorites, \* requests; symbols; those a default list begins with
    MaxLists, MaxListChanges

ASSUME NoticeAssumption == DedupWindow \in Nat /\ IsFiniteSet(DOMAIN Favorites)

(***************************************************************************)
(* Notices.                                                                *)
(***************************************************************************)
VARIABLES
    notice,         \* [event, channel] -> where its sending is
    inbox,          \* [event, channel] -> rows of Notification
    unread, shown,  \* notices of the inbox: not marked as read; on the client's screen
    pref,           \* channel -> the client wants it
    change,         \* request -> [pc, read, channel, on]
    noticeFaults
noticeVars == <<notice, inbox, unread, shown, pref, change, noticeFaults>>

Channels == {"IN_APP", "EMAIL"}
Messages == News \X Channels
ChannelOf(m) == m[2]
NoChange == [pc |-> "idle", read |-> {}, channel |-> "EMAIL", on |-> TRUE]

NoticesInit ==
    /\ notice = [m \in Messages |-> "none"] /\ inbox = [m \in Messages |-> 0]
    /\ unread = {} /\ shown = {} /\ pref = [c \in Channels |-> TRUE]
    /\ change = [r \in Changers |-> NoChange] /\ noticeFaults = 0

Faulty(ok) ==
    \/ ok /\ UNCHANGED noticeFaults
    \/ ~ok /\ noticeFaults < MaxNoticeFaults /\ noticeFaults' = noticeFaults + 1
Become(m, pc) == notice' = [notice EXCEPT ![m] = pc]

\* subscribe(), sendAll(): an event starts a message on both channels.
Announce(e) ==
    /\ \A c \in Channels : notice[<<e, c>>] = "none"
    /\ notice' = [m \in Messages |-> IF m[1] = e THEN "wanted" ELSE notice[m]]
    /\ UNCHANGED <<inbox, unread, shown, pref, change, noticeFaults>>

\* send(): the preferences, and then the row.
ReadPreference(m, ok) ==
    /\ notice[m] = "wanted" /\ Faulty(ok)
    /\ Become(m, IF ~ok THEN "failing" ELSE IF pref[ChannelOf(m)] THEN "creating" ELSE "optedOut")
    /\ UNCHANGED <<inbox, unread, shown, pref, change>>

\* _createWithRetry(): the second attempt has the same id, which is unique.
Stored(m) == IF ChannelOf(m) = "EMAIL" THEN "mailing" ELSE "done"
NeverTaken(m) == FALSE
Taken(m) == inbox[m] > 0
Create(m, outcome) ==
    /\ notice[m] \in {"creating", "again"} /\ Faulty(outcome = "stored")
    /\ LET stores == outcome \in {"stored", "unheard"} /\ ~Taken(m)
           failed == IF notice[m] = "creating" THEN "again" ELSE "failing"
       IN  /\ inbox' = [inbox EXCEPT ![m] = IF stores THEN @ + 1 ELSE @]
           /\ unread' = (IF stores /\ ChannelOf(m) = "IN_APP" THEN unread \cup {m} ELSE unread)
           /\ Become(m, IF stores /\ outcome = "stored" THEN Stored(m) ELSE failed)
    /\ UNCHANGED <<shown, pref, change>>

\* What could not be stored is written to the audit trail, if that can be written.
RecordFailure(m, ok) ==
    /\ notice[m] = "failing" /\ Faulty(ok)
    /\ Become(m, IF ok THEN "recorded" ELSE "lost")
    /\ UNCHANGED <<inbox, unread, shown, pref, change>>

\* The e-mail is sent or not: send() does not look.
Mail(m) ==
    /\ notice[m] = "mailing" /\ Become(m, "done")
    /\ UNCHANGED <<inbox, unread, shown, pref, change, noticeFaults>>

\* The messages a process was sending are in its memory only.
RouterDies ==
    /\ Faulty(FALSE)
    /\ notice' = [m \in Messages |->
                      IF notice[m] \in {"wanted", "creating", "again", "failing", "mailing"}
                      THEN "lost" ELSE notice[m]]
    /\ UNCHANGED <<inbox, unread, shown, pref, change>>

GetInApp ==
    /\ shown' = unread /\ UNCHANGED <<notice, inbox, unread, pref, change, noticeFaults>>
MarkRead(ids) ==
    /\ unread' = (IF ids THEN unread \ shown ELSE {})
    /\ UNCHANGED <<notice, inbox, shown, pref, change, noticeFaults>>

\* updatePreferences() reads the row, and writes all of it with its patch.
ReadPreferences(r, channel, on) ==
    /\ change[r].pc = "idle"
    /\ change' = [change EXCEPT ![r] = [pc |-> "read", read |-> {pref}, channel |-> channel,
                                        on |-> on]]
    /\ UNCHANGED <<notice, inbox, unread, shown, pref, noticeFaults>>
WritePreferences(r) ==
    /\ change[r].pc = "read"
    /\ \E read \in change[r].read : pref' = [read EXCEPT ![change[r].channel] = change[r].on]
    /\ change' = [change EXCEPT ![r].pc = "done", ![r].read = {}]
    /\ UNCHANGED <<notice, inbox, unread, shown, noticeFaults>>

NoticesNext ==
    \/ \E e \in News : Announce(e)
    \/ \E m \in Messages :
           \/ \E ok \in BOOLEAN : ReadPreference(m, ok) \/ RecordFailure(m, ok)
           \/ \E outcome \in {"stored", "unheard", "refused"} : Create(m, outcome)
           \/ Mail(m)
    \/ RouterDies \/ GetInApp \/ \E ids \in BOOLEAN : MarkRead(ids)
    \/ \E r \in Changers : \/ \E c \in Channels, on \in BOOLEAN : ReadPreferences(r, c, on)
                           \/ WritePreferences(r)

(***************************************************************************)
(* Alerts.  Each worker remembers when it last sent an alert of a type and *)
(* a severity; whose alert it was, or about what, is not part of the key.  *)
(***************************************************************************)
VARIABLES
    incident,       \* incident -> [pc, on, at, recorded]
    recent,         \* worker -> key -> when it was last sent; 0: never
    clock5
alertVars == <<incident, recent, clock5>>

AlertKeys == {AlertOf[i] : i \in Incidents}
AlertsInit ==
    /\ incident = [i \in Incidents |-> [pc |-> "none", on |-> "", at |-> 0, recorded |-> FALSE]]
    /\ recent = [w \in Desks |-> [k \in AlertKeys |-> 0]] /\ clock5 = 1

\* isDuplicate() checks and remembers at once.
Marked(w, k) == [recent EXCEPT ![w][k] = clock5]
Duplicate(w, k) == recent[w][k] > 0 /\ clock5 - recent[w][k] < DedupWindow
Raise(i, w) ==
    /\ incident[i].pc = "none"
    /\ IF Duplicate(w, AlertOf[i])
       THEN /\ incident' = [incident EXCEPT ![i].pc = "swallowed", ![i].on = w, ![i].at = clock5]
            /\ UNCHANGED recent
       ELSE /\ incident' = [incident EXCEPT ![i].pc = "sending", ![i].on = w, ![i].at = clock5]
            /\ recent' = Marked(w, AlertOf[i])
    /\ UNCHANGED clock5

\* The channels fail or not without a trace; the audit record may fail too.
Sent(i, audited) ==
    /\ incident[i].pc = "sending"
    /\ incident' = [incident EXCEPT ![i].pc = "sent", ![i].recorded = audited]
    /\ UNCHANGED <<recent, clock5>>

AlertTick == clock5 < MaxClock5 /\ clock5' = clock5 + 1 /\ UNCHANGED <<incident, recent>>

AlertsNext ==
    \/ \E i \in Incidents : \/ \E w \in Desks : Raise(i, w)
                            \/ \E audited \in BOOLEAN : Sent(i, audited)
    \/ AlertTick

(***************************************************************************)
(* Tickets.                                                                *)
(***************************************************************************)
VARIABLES
    ticket,         \* [status, resolvedAt, note]: note: whose note stands
    reply,          \* agent -> [pc, read]
    statusChanges,
    decided,        \* history: what the last change of status said
    lateReply       \* history: a reply had read the ticket before that
ticketVars == <<ticket, reply, statusChanges, decided, lateReply>>

TicketsInit ==
    /\ ticket = [status |-> "OPEN", resolvedAt |-> FALSE, note |-> ""]
    /\ reply = [a \in Agents |-> [pc |-> "idle", read |-> "OPEN"]]
    /\ statusChanges = 0 /\ decided = "OPEN" /\ lateReply = FALSE

\* addReply(): the status is written back as it was read.
ReadTicket(a) ==
    /\ reply[a].pc = "idle"
    /\ reply' = [reply EXCEPT ![a] = [pc |-> "read", read |-> ticket.status]]
    /\ UNCHANGED <<ticket, statusChanges, decided, lateReply>>

AlwaysProgress(status) == "IN_PROGRESS"
Progress(status) == IF status = "OPEN" THEN "IN_PROGRESS" ELSE status
WriteReply(a) ==
    /\ reply[a].pc = "read"
    /\ ticket' = [ticket EXCEPT !.note = a, !.status = Progress(reply[a].read)]
    /\ reply' = [reply EXCEPT ![a].pc = "done"]
    /\ lateReply' = (lateReply \/ reply[a].read # ticket.status)
    /\ UNCHANGED <<statusChanges, decided>>

\* updateStatus().
UpdateStatus(status) ==
    /\ statusChanges < MaxStatusChanges /\ statusChanges' = statusChanges + 1
    /\ ticket' = [ticket EXCEPT !.status = status,
                                !.resolvedAt = (@ \/ status \in {"RESOLVED", "CLOSED"})]
    /\ decided' = status /\ lateReply' = FALSE
    /\ UNCHANGED reply

TicketsNext ==
    \/ \E a \in Agents : ReadTicket(a) \/ WriteReply(a)
    \/ \E status \in {"OPEN", "IN_PROGRESS", "RESOLVED", "CLOSED"} : UpdateStatus(status)

(***************************************************************************)
(* Watchlists of one client, with a database.  A request reads a list, and *)
(* then writes what it made of it.  A symbol is spelled in upper case or   *)
(* not: <<ticker, upper>>; of a list of symbols the model keeps how often  *)
(* each spelling is in it, and not their order.                            *)
(***************************************************************************)
VARIABLES
    list,           \* list -> its row, or NoList
    visit,          \* request -> what it is about to write
    listChanges,
    misspelt,       \* history: a client's list in lower case, or with a symbol twice, was saved
    renamedDefault  \* history: the default list was given another name
listVars == <<list, visit, listChanges, misspelt, renamedDefault>>

Upper(ticker) == <<ticker, TRUE>>
Spellings == Tickers \X BOOLEAN
Nothing == [s \in Spellings |-> 0]
NoList == [name |-> "", symbols |-> Nothing, isDefault |-> FALSE]
NoVisit == [pc |-> "idle", on |-> 1, row |-> NoList]
Rows == {l \in 1..MaxLists : list[l] # NoList}
NameTaken(name) == \E l \in Rows : list[l].name = name
Includes(symbols, symbol) == symbols[symbol] > 0
With(symbols, ticker, times) == [symbols EXCEPT ![Upper(ticker)] = times]
Uppers(tickers) ==
    [s \in Spellings |-> IF s[2] THEN Cardinality({i \in DOMAIN tickers : tickers[i] = s[1]}) ELSE 0]

ListsInit ==
    /\ list = [l \in 1..MaxLists |-> NoList] /\ visit = [v \in Visits |-> NoVisit]
    /\ listChanges = 0 /\ misspelt = FALSE /\ renamedDefault = FALSE

Intend(v, pc, on, row) ==
    /\ visit[v] = NoVisit
    /\ listChanges < MaxListChanges /\ listChanges' = listChanges + 1
    /\ visit' = [visit EXCEPT ![v] = [pc |-> pc, on |-> on, row |-> row]]
    /\ UNCHANGED <<list, misspelt, renamedDefault>>

\* getAll(): a client without a list gets the default one.
GetAll(v) ==
    /\ Rows = {}
    /\ Intend(v, "create", 1, [name |-> "Favorites", isDefault |-> TRUE,
                              symbols |-> Uppers(Favorites)])
\* The route has the symbols in upper case, as often as the client named them.
CreateList(v, name, tickers) ==
    /\ ~NameTaken(name)
    /\ Intend(v, "create", 1, [name |-> name, isDefault |-> FALSE,
                              symbols |-> Uppers(tickers)])
Rename(v, l, name) ==
    /\ \A k \in Rows \ {l} : list[k].name # name
    /\ Intend(v, "name", l, [list[l] EXCEPT !.name = name])
AddSymbol(v, l, ticker) ==
    /\ ~Includes(list[l].symbols, Upper(ticker))
    /\ Intend(v, "symbols", l, [list[l] EXCEPT !.symbols = With(@, ticker, @[Upper(ticker)] + 1)])
RemoveSymbol(v, l, ticker) ==
    Intend(v, "symbols", l, [list[l] EXCEPT !.symbols = With(@, ticker, 0)])
\* Kept as the client spelled them, and as often as it named them.
ReorderSymbols(v, l, order) ==
    LET known(s) == Includes(list[l].symbols, Upper(s[1]))
        times(s) == Cardinality({i \in DOMAIN order : order[i] = s})
    IN  Intend(v, "order", l, [list[l] EXCEPT !.symbols =
                                   [s \in Spellings |-> IF known(s) THEN times(s) ELSE 0]])
DeleteList(v, l) == ~list[l].isDefault /\ Intend(v, "drop", l, NoList)

\* The database refuses a name twice, and to update or delete a row that is gone.
Canonical(symbols) ==
    \A s \in Spellings : symbols[s] = 0 \/ (s[2] /\ symbols[s] = 1)
Finish(v) == visit' = [visit EXCEPT ![v] = NoVisit] /\ UNCHANGED listChanges
Fails(v) == Finish(v) /\ UNCHANGED <<list, misspelt, renamedDefault>>

InsertList(v) ==
    /\ visit[v].pc = "create"
    /\ \/ NameTaken(visit[v].row.name) /\ Fails(v)
       \/ /\ ~NameTaken(visit[v].row.name)
          /\ \E l \in 1..MaxLists \ Rows : list' = [list EXCEPT ![l] = visit[v].row]
          /\ misspelt' = (misspelt \/ ~Canonical(visit[v].row.symbols))
          /\ Finish(v) /\ UNCHANGED renamedDefault
Save(v) ==
    LET l == visit[v].on
        row == visit[v].row
    IN  /\ visit[v].pc \in {"symbols", "order", "name", "drop"}
        /\ \/ /\ \/ l \notin Rows
                 \/ visit[v].pc = "name" /\ \E k \in Rows \ {l} : list[k].name = row.name
              /\ Fails(v)
           \/ /\ l \in Rows /\ Finish(v)
              /\ \/ /\ visit[v].pc \in {"symbols", "order"}
                    /\ list' = [list EXCEPT ![l].symbols = row.symbols]
                    /\ misspelt' = (misspelt \/ (visit[v].pc = "order" /\ ~Canonical(row.symbols)))
                    /\ UNCHANGED renamedDefault
                 \/ /\ visit[v].pc = "name" /\ \A k \in Rows \ {l} : list[k].name # row.name
                    /\ list' = [list EXCEPT ![l].name = row.name]
                    /\ renamedDefault' = (renamedDefault \/ list[l].isDefault)
                    /\ UNCHANGED misspelt
                 \/ /\ visit[v].pc = "drop" /\ list' = [list EXCEPT ![l] = NoList]
                    /\ UNCHANGED <<misspelt, renamedDefault>>

ListsNext ==
    \E v \in Visits :
        \/ GetAll(v) \/ InsertList(v) \/ Save(v)
        \/ CreateList(v, "Other", << >>) \/ \E t \in Tickers \X Tickers : CreateList(v, "Other", t)
        \/ \E l \in Rows :
            \/ \E name \in {"Favorites", "Other"} : Rename(v, l, name)
            \/ \E ticker \in Tickers : AddSymbol(v, l, ticker) \/ RemoveSymbol(v, l, ticker)
            \/ \E order \in Spellings \X Spellings : ReorderSymbols(v, l, order)
            \/ DeleteList(v, l)
---------------------------------------------------------------------------
\* A message is in the inbox once at most, whatever answers of the database were
\* lost, and is there when its sending was completed (_createWithRetry).
NoticesStored ==
    \A m \in Messages : /\ inbox[m] <= 1
                        /\ notice[m] = "done" => inbox[m] = 1
                        /\ m \in unread => inbox[m] = 1

\* No worker sends two alerts of one type and severity within the window, and
\* swallows one only after another of its own (alert.manager.ts isDuplicate).
AlertsSpaced ==
    LET sent(i) == incident[i].pc \in {"sending", "sent"}
        alike(i, j) == /\ i # j /\ AlertOf[i] = AlertOf[j] /\ incident[i].on = incident[j].on
                       /\ incident[i].at <= incident[j].at
                       /\ incident[j].at - incident[i].at < DedupWindow
    IN  \A j \in Incidents :
            /\ sent(j) => ~\E i \in Incidents : sent(i) /\ alike(i, j)
            /\ incident[j].pc = "swallowed" => \E i \in Incidents : sent(i) /\ alike(i, j)

\* A ticket that was resolved or closed stays so through the replies of agents
\* who saw it resolved, and the time of its resolution is known (support.service.ts).
TicketsStayResolved ==
    /\ decided \in {"RESOLVED", "CLOSED"} /\ ~lateReply => ticket.status = decided
    /\ ticket.status \in {"RESOLVED", "CLOSED"} => ticket.resolvedAt

\* A list shows no symbol twice, whichever requests met, and a client has one
\* default list, however many first requests it sent at once; but after a list or
\* an order that named one twice or spelled it otherwise was saved, or after the
\* default list was renamed (watchlist.service.ts).
ListsInOrder ==
    /\ ~misspelt => \A l \in Rows : Canonical(list[l].symbols)
    /\ ~renamedDefault => Cardinality({l \in Rows : list[l].isDefault}) <= 1

NoticesSound == NoticesStored /\ AlertsSpaced /\ TicketsStayResolved /\ ListsInOrder

\* False of the code.  The router's comment says an audit record stands for every
\* notice that was not stored; the code writes one for a stored notice too, whose
\* first answer was lost, and none for those of a process that dies.
RecordedIsMissing == \A m \in Messages : notice[m] = "recorded" => inbox[m] = 0

\* False of the code.  alert.manager.ts: all alerts are also written to AuditLog;
\* a second incident of a type is not, whatever it is about.
EveryIncidentRecorded == \A i \in Incidents : incident[i].pc # "swallowed"

\* False of the code: of two changes to the preferences at once, one is undone.
PreferenceChangesKept ==
    \A r, q \in Changers :
        /\ r # q /\ change[r].pc = "done" /\ change[q].pc = "done"
        /\ change[r].channel # change[q].channel
        => pref[change[r].channel] = change[r].on

\* False of the code: reorderSymbols() saves the client's own spelling, and what is
\* in lower case no removal finds.
NothingMisspelt == ~misspelt

\* False of the code: a default list renamed while a second first request is on
\* its way leaves the client with two that cannot be deleted.
OneDefaultList == Cardinality({l \in Rows : list[l].isDefault}) <= 1

\* False of the code: marking all as read marks what was never on the screen.
OnlyShownIsRead ==
    \A m \in Messages : inbox[m] = 1 /\ ChannelOf(m) = "IN_APP" => m \in unread \cup shown
==============================================================================
