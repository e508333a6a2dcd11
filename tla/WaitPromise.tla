----------------------------- MODULE WaitPromise -----------------------------
(***************************************************************************)
(* What wait and as_completed promise their caller: a call gives tasks of  *)
(* its list, one at a time, and gives up on others, never on one it gave.  *)
(* It ends well only when every task of the list is accounted for, and a   *)
(* failure makes it raise as its policy says: at once, at the end, never.  *)
(* It may also end at any moment because a request failed, or because the  *)
(* caller left.  Meanwhile it shows how many tasks it gave, now and then,  *)
(* and at the last task of the list and at the end in any case.            *)
(***************************************************************************)
EXTENDS Naturals, Sequences, Functions, Filter

CONSTANTS
    Lists,                  \* the lists of tasks a caller waits on
    Policies,               \* the policies it passes
    First, After, Never     \* the policies there are

VARIABLES
    list, policy,   \* what the call was asked for
    given,          \* the tasks it gave its caller
    gone,           \* the tasks it gave up on
    count,          \* how many times it gave one
    shown,          \* the count it showed last
    failed,         \* it met a failure
    status          \* "idle", "open", or how it ended

asked == <<list, policy>>
vars == <<asked, given, gone, count, shown, failed, status>>

Init ==
    /\ list = <<>> /\ policy \in Policies
    /\ given = {} /\ gone = {} /\ count = 0 /\ shown = 0 /\ failed = FALSE
    /\ status = "idle"

Begin ==
    /\ status # "open" /\ status' = "open"
    /\ list' \in Lists /\ policy' \in Policies \cup {First}
    /\ given' = {} /\ gone' = {} /\ count' = 0 /\ shown' = 0 /\ failed' = FALSE

Open == status = "open" /\ UNCHANGED asked

(* A task, which may have failed, comes back, and not more often than the  *)
(* list names it.                                                          *)
Give ==
    /\ Open /\ UNCHANGED <<gone, status>>
    /\ \E t \in Range(list) \ gone : given' = given \cup {t}
    /\ count' = count + 1 /\ count' <= Len(Only(list, given'))
    /\ shown' \in {shown, count'} /\ (count' = Len(list) => shown' = count')
    /\ \/ UNCHANGED failed
       \/ policy # First /\ failed' = TRUE

Drop == gone \subseteq gone' /\ gone' \subseteq gone \cup (Range(list) \ given)

(* Some tasks cannot finish, which is a failure.                           *)
GiveUp ==
    /\ Open /\ UNCHANGED <<given, count, shown, status>>
    /\ policy # First
    /\ Drop /\ failed' = TRUE

Complete ==
    /\ Open /\ UNCHANGED <<given, gone, count, failed>>
    /\ given \cup gone = Range(list)
    /\ count = Len(Only(list, given)) /\ shown' = count

Return ==
    /\ Complete
    /\ failed => policy = Never
    /\ status' = "returned"

RaiseAfter ==
    /\ Complete
    /\ failed /\ policy = After
    /\ status' = "raised"

RaiseFirst ==
    /\ Open /\ UNCHANGED <<given, count>>
    /\ policy = First /\ ~failed
    /\ Drop /\ failed' = TRUE
    /\ shown' = count /\ status' = "raised"

(* A request fails, also one that follows a failure, or the one that shows *)
(* a count: then the task it counts is not given.                          *)
Break ==
    /\ Open /\ UNCHANGED given
    /\ count' \in {count, count + 1} /\ shown' \in {shown, count'}
    /\ Drop /\ (UNCHANGED failed \/ failed' = TRUE)
    /\ status' = "broken"

Leave ==
    /\ Open /\ UNCHANGED <<given, gone, count, failed>>
    /\ shown' = count /\ status' = "abandoned"

Next == Begin \/ Give \/ GiveUp \/ Return \/ RaiseAfter \/ RaiseFirst \/ Break \/ Leave

Spec == Init /\ [][Next]_vars

=============================================================================
