--------------------------------- MODULE View ---------------------------------
(***************************************************************************)
(* The tasks tab of swtop's terminal UI: SnapshotPoller, which polls the   *)
(* server and delivers snapshots, the TaskTable it draws them on, with the *)
(* checkboxes of TaskStateFilter, and the tab label of its BlockPane.      *)
(*                                                                         *)
(* Everything runs on one event loop.  A poll is a coroutine, which awaits *)
(* the collector; a widget handles its messages one at a time, in order.   *)
(* The other tabs are the same without the checkboxes.                     *)
(***************************************************************************)
EXTENDS Naturals, Sequences, FiniteSets, Functions, Filter

CONSTANTS
    NumTasks,   \* the tasks of the run, in the order of their names
    MaxToggles, \* bound on the clicks on checkboxes
    MaxAsks     \* bound on the polls the viewer asks for

ASSUME ViewOK == {NumTasks, MaxToggles, MaxAsks} \subseteq Nat

VARIABLES
    server,     \* the state of each task on the server
    mounted,    \* the poller: "no" (not yet), "yes", "gone"
    polls,      \* the polls in flight, with what the collector read
    again,      \* _again
    last,       \* SnapshotPoller.snapshot
    attached,   \* the table is one of the poller's views
    drawn,      \* BlockTable.snapshot, the last good one
    rows,       \* the rows of its DataTable, from the top
    boxes,      \* the checked states
    states,     \* TaskTable.states
    changes,    \* Changed messages on their way to the table
    counts,     \* CountChanged messages on their way to the pane
    label,      \* the count in the tab label
    toggles,    \* clicks so far
    asks,       \* calls of poll_now so far
    owed        \* what a poll has to answer: a call before it, or during it

serverVars == <<server>>
pollerVars == <<mounted, polls, again, last, asks, owed>>
drawVars   == <<drawn, rows, counts>>
filterVars == <<boxes, states, changes, toggles>>
vars == <<server, pollerVars, attached, drawVars, filterVars, label>>

-----------------------------------------------------------------------------
Tasks == 1..NumTasks

(* A task is not there, then to be finished, then ended.                   *)
Stages   == {"absent", "open", "ended"}
Rank     == [absent |-> 0, open |-> 1, ended |-> 2]
Server   == [Tasks -> Stages]
Row      == [task : Tasks, state : {"open", "ended"}]

(* A snapshot, also one with its error set; or a poll that only began.     *)
Snapshot == [is : {"none", "begun", "failed", "good"}, of : Server]
Without(is) == [is |-> is, of |-> [t \in Tasks |-> "absent"]]
NoRead == Without("none")
Begun  == Without("begun")
Failed == Without("failed")
Read   == [is |-> "good", of |-> server]
Good(s) == s.is = "good"

(* The types; and no task has two rows. *)
TypeOK ==
    /\ server \in Server
    /\ mounted \in {"no", "yes", "gone"}
    /\ polls \subseteq Snapshot
    /\ again \in BOOLEAN
    /\ last \in Snapshot
    /\ attached \in BOOLEAN
    /\ drawn \in Snapshot
    /\ rows \in Seq(Row)
    /\ \A i, j \in DOMAIN rows : rows[i].task = rows[j].task => i = j
    /\ boxes \subseteq {"open", "ended"} /\ states \subseteq {"open", "ended"}
    /\ changes \in 0..MaxToggles
    /\ counts \in Seq(0..NumTasks)
    /\ label \in 0..NumTasks
    /\ toggles \in 0..MaxToggles
    /\ asks \in 0..MaxAsks
    /\ owed \subseteq {"before", "during"}

Init ==
    /\ server = [t \in Tasks |-> "absent"]
    /\ mounted = "no" /\ polls = {} /\ again = FALSE /\ last = NoRead
    /\ attached = FALSE /\ drawn = NoRead /\ rows = <<>>
    /\ boxes = {"open"} /\ states = {"open"} /\ changes = 0
    /\ counts = <<>> /\ label = 0
    /\ toggles = 0 /\ asks = 0 /\ owed = {}

-----------------------------------------------------------------------------
(* The table.                                                              *)

(* The collector lists the tasks by the rank of their states, then by name. *)
Listing(snapshot) ==
    LET row == [t \in Tasks |-> [task |-> t, state |-> snapshot.of[t]]] IN
    Only(row, [task : Tasks, state : {"open"}]) \o Only(row, [task : Tasks, state : {"ended"}])

(* TaskTable.rows: the tasks in the chosen states, in the snapshot's order. *)
RowsOf(snapshot, chosen) == Only(Listing(snapshot), [task : Tasks, state : chosen])

TasksOf(table)  == {table[i].task : i \in DOMAIN table}
RowOf(table, t) == table[CHOOSE i \in DOMAIN table : table[i].task = t]
RowsFor(tasks)  == [task : tasks, state : {"open", "ended"}]

(* Mutant: the table is cleared and filled again. *)
SyncByRebuild(table, wanted) == wanted

(* Mutant: a row is known by its cells, and an old one stays. *)
SyncWithoutRemoval(table, wanted) == table \o Only(wanted, Row \ Range(table))

(* sync_table: rows that are not wanted go, those that stay keep their     *)
(* place and get their new cells, and new ones come last.                  *)
SyncTable(table, wanted) ==
    LET staying == Only(table, RowsFor(TasksOf(wanted))) IN
    [i \in DOMAIN staying |-> RowOf(wanted, staying[i].task)]
        \o Only(wanted, RowsFor(Tasks \ TasksOf(table)))

(* BlockTable.redraw, which tells the pane when the count is another one;  *)
(* BlockTable.count is the number of rows.                                 *)
Redraw(snapshot, chosen) ==
    /\ rows' = IF snapshot = NoRead THEN rows
               ELSE SyncTable(rows, RowsOf(snapshot, chosen))
    /\ counts' = IF Len(rows') # Len(rows) THEN Append(counts, Len(rows')) ELSE counts

(* BlockTable.show, which passes over a failed poll.                       *)
Show(snapshot) ==
    IF Good(snapshot)
    THEN drawn' = snapshot /\ Redraw(snapshot, states)
    ELSE UNCHANGED drawVars

(* The viewer clicks on a checkbox, and the filter posts Changed.          *)
Toggle ==
    /\ toggles < MaxToggles
    /\ toggles' = toggles + 1
    /\ changes' = changes + 1
    /\ \E s \in {"open", "ended"} :
          boxes' = IF s \in boxes THEN boxes \ {s} ELSE boxes \cup {s}
    /\ UNCHANGED <<serverVars, pollerVars, attached, drawVars, states, label>>

(* Mutant: the next poll draws the rows. *)
HandleChangedLater ==
    /\ changes > 0
    /\ changes' = changes - 1
    /\ states' = boxes
    /\ UNCHANGED <<serverVars, pollerVars, attached, drawVars, boxes, toggles, label>>

(* on_task_state_filter_changed: the states that are checked by now.       *)
HandleChanged ==
    /\ changes > 0
    /\ changes' = changes - 1
    /\ states' = boxes
    /\ Redraw(drawn, boxes)
    /\ UNCHANGED <<serverVars, pollerVars, attached, drawn, boxes, toggles, label>>

(* on_block_table_count_changed                                            *)
HandleCount ==
    /\ counts # <<>>
    /\ label' = Head(counts)
    /\ counts' = Tail(counts)
    /\ UNCHANGED <<serverVars, pollerVars, attached, drawn, rows, filterVars>>

-----------------------------------------------------------------------------
(* The poller.                                                             *)

(* _polling *)
Polling == polls # {}

Draws == UNCHANGED <<serverVars, attached, filterVars, label>>
Quiet == Draws /\ UNCHANGED drawVars

(* Mutant: every call starts a poll. *)
PollNowAlways ==
    /\ polls' = polls \cup {Begun}
    /\ UNCHANGED again

(* Mutant: a call during a poll is dropped, as a tick is. *)
PollNowDropped ==
    /\ polls' = IF Polling THEN polls ELSE {Begun}
    /\ UNCHANGED again

(* poll_now *)
PollNow ==
    IF Polling THEN again' = TRUE /\ UNCHANGED polls
    ELSE polls' = {Begun} /\ UNCHANGED again

(* on_mount: the first poll.                                               *)
Mount ==
    /\ mounted = "no"
    /\ mounted' = "yes"
    /\ PollNow
    /\ owed' = {"before"}
    /\ UNCHANGED <<last, asks>> /\ Quiet

(* The viewer, or the app, asks for a poll.                                *)
Ask ==
    /\ mounted = "yes" /\ asks < MaxAsks
    /\ asks' = asks + 1
    /\ PollNow
    /\ owed' = owed \cup {IF Polling THEN "during" ELSE "before"}
    /\ UNCHANGED <<mounted, last>> /\ Quiet

(* _tick: a tick during a poll is dropped.                                 *)
Tick ==
    /\ mounted = "yes" /\ ~Polling
    /\ PollNow
    /\ UNCHANGED <<mounted, last, asks, owed>> /\ Quiet

(* The collector reads the server, or raises.                              *)
Collect(p) ==
    /\ p = Begun /\ p \in polls
    /\ \E s \in {Read, Failed} : polls' = (polls \ {p}) \cup {s}
    /\ UNCHANGED <<mounted, again, last, asks, owed>> /\ Quiet

(* deliver, and the end of _poll, without an await between them: a call of *)
(* poll_now during the poll makes it begin another.                        *)
Deliver(p) ==
    /\ p # Begun /\ p \in polls
    /\ last' = p
    /\ IF attached THEN Show(p) ELSE UNCHANGED drawVars
    /\ polls' = (polls \ {p}) \cup IF again THEN {Begun} ELSE {}
    /\ again' = FALSE
    /\ owed' = IF "during" \in owed THEN {IF again THEN "before" ELSE "during"} ELSE {}
    /\ UNCHANGED <<mounted, asks>> /\ Draws

(* on_unmount: cancels the poll in flight, which then begins no other.     *)
Unmount ==
    /\ mounted = "yes"
    /\ mounted' = "gone" /\ polls' = {}
    /\ UNCHANGED <<again, last, asks, owed>> /\ Quiet

(* attach: a table that comes after a poll shows it at once; detach.       *)
Attach ==
    /\ ~attached
    /\ attached' = TRUE
    /\ Show(last)
    /\ UNCHANGED <<serverVars, pollerVars, filterVars, label>>

Detach ==
    /\ attached
    /\ attached' = FALSE
    /\ UNCHANGED <<serverVars, pollerVars, drawVars, filterVars, label>>

(* The run goes on.                                                        *)
TaskMoves ==
    /\ \E t \in Tasks, s \in Stages :
          Rank[s] = Rank[server[t]] + 1 /\ server' = [server EXCEPT ![t] = s]
    /\ UNCHANGED <<pollerVars, attached, drawVars, filterVars, label>>

-----------------------------------------------------------------------------
PollStep == \E p \in polls : Collect(p) \/ Deliver(p)

Next ==
    \/ TaskMoves \/ Toggle \/ HandleChanged \/ HandleCount
    \/ Mount \/ Ask \/ Tick \/ Unmount \/ Attach \/ Detach
    \/ PollStep

Spec == Init /\ [][Next]_vars

-----------------------------------------------------------------------------
(* Safety.                                                                 *)

(* The table holds the tasks of the snapshot it drew last in the chosen    *)
(* states, as that snapshot has them, through failed polls and clicks.     *)
(* While the last poll was a good one and the table is attached, however   *)
(* late, that is its snapshot; a table attached after a failed poll keeps  *)
(* what it had until the next good one.  Once the messages are handled the *)
(* chosen states are the checked ones, and the label counts the rows.      *)
TableShowsTheSnapshot ==
    /\ attached /\ Good(last) => drawn = last
    /\ drawn # NoRead =>
          Range(rows) = {[task |-> t, state |-> drawn.of[t]] :
                            t \in {u \in Tasks : drawn.of[u] \in states}}
    /\ changes = 0 => states = boxes
    /\ counts = <<>> => label = Len(rows)

(* "A row that is still there keeps its place": of two tasks that stay in  *)
(* the table, the one above stays above, whatever their new states.        *)
Above(table, t, u) ==
    \E i, j \in DOMAIN table : i < j /\ table[i].task = t /\ table[j].task = u

RowsKeepTheirPlace ==
    [][\A t, u \in Tasks : Above(rows, t, u) => ~Above(rows', u, t)]_vars

(* "One poll at a time, and each one runs to its end": the table never     *)
(* goes back to an older reading of the server than it showed before.      *)
NeverBack ==
    [][drawn # NoRead => \A t \in Tasks : Rank[drawn.of[t]] <= Rank[drawn'.of[t]]]_vars

-----------------------------------------------------------------------------
(* Liveness.                                                               *)

(* The collector answers or raises, and the loop runs.  Nothing is assumed *)
(* of the interval.                                                        *)
FairSpec == Spec /\ WF_vars(PollStep)

(* "The caller still gets a fresh read of the server": after a call of     *)
(* poll_now, also during a poll, a poll that began after it is delivered,  *)
(* without waiting for the next interval; unless the poller unmounts.      *)
AskIsServed ==
    owed # {} ~> owed = {} \/ mounted = "gone"

=============================================================================
