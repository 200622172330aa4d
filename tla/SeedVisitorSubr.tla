-------------------------- MODULE SeedVisitorSubr --------------------------
(***************************************************************************)
(* The subscription of a fon9::seed::SeedVisitor (src/fon9/seed/           *)
(* SeedVisitor.cpp).  A visitor has one current subscription, Subr_ (a    *)
(* MustLock<VisitorSubrSP>).  A subscribe request constructs a            *)
(* TicketRunnerSubscribe, whose constructor calls NewSubscribe(): a new   *)
(* VisitorSubr replaces Subr_ under the lock and the replaced one is      *)
(* unsubscribed.  The ticket later finds the tree and runs OnFoundTree:  *)
(* VisitorSubr::Subscribe, then, if Subr_ has meanwhile been replaced,    *)
(* Unsubscribe.  An unsubscribe request ("<u>" ticket) carries a subr: if *)
(* it is the current one SeedVisitor::Unsubscribe() takes Subr_ out,      *)
(* otherwise the subr is unsubscribed directly.                           *)
(*                                                                         *)
(* The constructor runs on the session's thread; OnFoundTree runs on the *)
(* thread that finds the tree (OnTreeOp calls back synchronously, e.g.    *)
(* MdSymbs::OnTreeOp), so tickets and the session interleave.  Only Subr_ *)
(* is locked: Tree_ and SubConn_ of a VisitorSubr are plain members, so   *)
(* every statement that touches them is a step of its own.  Moving Tree_ *)
(* out is a read then a write: two threads that race on it can both get  *)
(* the pointer, which is the outcome the unsynchronised move can produce. *)
(*                                                                         *)
(* A job is a thread of control: the session (Ses), the OnFoundTree of    *)
(* the subscribe ticket of subr k, or of the i-th "<u>" ticket.  The      *)
(* steps "u1".."u4" are VisitorSubr::Unsubscribe on subr job[j].subr.     *)
(***************************************************************************)
EXTENDS Naturals, FiniteSets

CONSTANTS
    MaxSubrs,   \* subscribe requests of the session (VisitorSubr 1..MaxSubrs)
    MaxUnsubs,  \* "<u>" requests of the session
    NoSubr      \* a null VisitorSubrSP (model value)

Subrs == 1..MaxSubrs

Ses == <<"ses", 0>>
SubJob(k) == <<"sub", k>>
UnsJob(i) == <<"uns", i>>
Jobs == {Ses} \cup {SubJob(k) : k \in Subrs} \cup {UnsJob(i) : i \in 1..MaxUnsubs}

VARIABLES
    cur,       \* SeedVisitor::Subr_
    sr,        \* sr[k]: is Tree_ / SubConn_ of VisitorSubr k non-null
    subs,      \* the tree's subscriptions: subrs whose SubConn_ is registered
    released,  \* released[k]: references to the tree released through subr k
    job,       \* each job: pc, the subr it works on, its target, locals t, c
    nsub,      \* subscribe requests made
    nuns       \* "<u>" requests made

vars == <<cur, sr, subs, released, job, nsub, nuns>>

Frame == [pc: {"none", "idle", "ctor", "wait", "s_reg", "s_chk", "x_take",
               "u1", "u2", "u3", "u4", "done", "err"},
          subr: Subrs \cup {NoSubr}, target: Subrs \cup {NoSubr},
          t: BOOLEAN, c: BOOLEAN]

Quiescent ==
    /\ job[Ses].pc = "idle"
    /\ \A j \in Jobs \ {Ses} : job[j].pc \in {"none", "done", "err"}

(* Back from VisitorSubr::Unsubscribe: the session returns from the      *)
(* ticket's constructor (the ticket may now run), a ticket is finished.  *)
Return(jb, j) ==
    IF j = Ses
    THEN [jb EXCEPT ![Ses].pc = "idle", ![SubJob(jb[Ses].target)].pc = "wait"]
    ELSE [jb EXCEPT ![j].pc = "done"]

-----------------------------------------------------------------------------
Init ==
    /\ cur = NoSubr
    /\ sr = [k \in Subrs |-> [tree |-> FALSE, conn |-> FALSE]]
    /\ subs = {}
    /\ released = [k \in Subrs |-> 0]
    /\ job = [j \in Jobs |-> [pc |-> IF j = Ses THEN "idle" ELSE "none",
                              subr |-> NoSubr, target |-> NoSubr,
                              t |-> FALSE, c |-> FALSE]]
    /\ nsub = 0 /\ nuns = 0

(* TicketRunnerSubscribe(visitor, seed, tabName) -> NewSubscribe(): under *)
(* the lock the new subr replaces Subr_; after the unlock the old one is   *)
(* unsubscribed, still inside the constructor.                             *)
NewSubscribe ==
    /\ job[Ses].pc = "idle" /\ nsub < MaxSubrs
    /\ LET k == nsub + 1 IN
       /\ cur' = k /\ nsub' = k
       /\ job' = IF cur = NoSubr
                 THEN [job EXCEPT ![SubJob(k)].pc = "wait"]
                 ELSE [job EXCEPT ![SubJob(k)].pc = "ctor",
                                  ![Ses].pc = "u1", ![Ses].subr = cur,
                                  ![Ses].target = k]
    /\ UNCHANGED <<sr, subs, released, nuns>>

(* TicketRunnerSubscribe(visitor, seed, subr): a "<u>" ticket for a subr  *)
(* the session was given earlier.                                          *)
RequestUnsubscribe ==
    /\ job[Ses].pc = "idle" /\ nuns < MaxUnsubs
    /\ \E x \in 1..nsub :
          job' = [job EXCEPT ![UnsJob(nuns + 1)].pc = "wait",
                             ![UnsJob(nuns + 1)].target = x]
    /\ nuns' = nuns + 1
    /\ UNCHANGED <<cur, sr, subs, released, nsub>>

(* OnFoundTree of a subscribe ticket: GetTabByNameOrFirst fails           *)
(* (not_found_tab), or VisitorSubr::Subscribe checks that it is unused    *)
(* and sets Tab_, Path_ and Tree_.                                         *)
FoundTree(k) ==
    /\ job[SubJob(k)].pc = "wait"
    /\ \/ /\ job' = [job EXCEPT ![SubJob(k)].pc = "err"]
          /\ UNCHANGED sr
       \/ /\ IF sr[k].conn \/ sr[k].tree
             THEN /\ job' = [job EXCEPT ![SubJob(k)].pc = "err"]
                  /\ UNCHANGED sr
             ELSE /\ sr' = [sr EXCEPT ![k].tree = TRUE]
                  /\ job' = [job EXCEPT ![SubJob(k)].pc = "s_reg"]
    /\ UNCHANGED <<cur, subs, released, nsub, nuns>>

(* opTree.Subscribe(&SubConn_, tab, ...): the tree registers the          *)
(* subscription and writes SubConn_; or it refuses (OnError).             *)
RegisterSubscription(k) ==
    /\ job[SubJob(k)].pc = "s_reg"
    /\ \/ /\ subs' = subs \cup {k}
          /\ sr' = [sr EXCEPT ![k].conn = TRUE]
          /\ job' = [job EXCEPT ![SubJob(k)].pc = "s_chk"]
       \/ /\ job' = [job EXCEPT ![SubJob(k)].pc = "err"]
          /\ UNCHANGED <<subs, sr>>
    /\ UNCHANGED <<cur, released, nsub, nuns>>

(* Mutant: the test reversed, the subr unsubscribes while it is current. *)
CheckSupersededInverted(k) ==
    /\ job[SubJob(k)].pc = "s_chk"
    /\ job' = IF cur = k
              THEN [job EXCEPT ![SubJob(k)].pc = "u1", ![SubJob(k)].subr = k]
              ELSE [job EXCEPT ![SubJob(k)].pc = "done"]
    /\ UNCHANGED <<cur, sr, subs, released, nsub, nuns>>

(* After a successful Subscribe: if Subr_ (read under its lock) is no     *)
(* longer this subr, a newer request superseded it: Unsubscribe.          *)
CheckSuperseded(k) ==
    /\ job[SubJob(k)].pc = "s_chk"
    /\ job' = IF cur # k
              THEN [job EXCEPT ![SubJob(k)].pc = "u1", ![SubJob(k)].subr = k]
              ELSE [job EXCEPT ![SubJob(k)].pc = "done"]
    /\ UNCHANGED <<cur, sr, subs, released, nsub, nuns>>

(* OnFoundTree of a "<u>" ticket: compare Subr_ with its subr, under the *)
(* lock; the lock is released before the branch runs.                    *)
CompareCurrent(i) ==
    /\ job[UnsJob(i)].pc = "wait"
    /\ job' = IF cur = job[UnsJob(i)].target
              THEN [job EXCEPT ![UnsJob(i)].pc = "x_take"]
              ELSE [job EXCEPT ![UnsJob(i)].pc = "u1",
                               ![UnsJob(i)].subr = job[UnsJob(i)].target]
    /\ UNCHANGED <<cur, sr, subs, released, nsub, nuns>>

(* SeedVisitor::Unsubscribe(): take Subr_ out under the lock, whatever it *)
(* holds by now, and unsubscribe it.                                       *)
TakeCurrent(i) ==
    /\ job[UnsJob(i)].pc = "x_take"
    /\ cur' = NoSubr
    /\ job' = IF cur = NoSubr THEN [job EXCEPT ![UnsJob(i)].pc = "done"]
              ELSE [job EXCEPT ![UnsJob(i)].pc = "u1", ![UnsJob(i)].subr = cur]
    /\ UNCHANGED <<sr, subs, released, nsub, nuns>>

(* VisitorSubr::Unsubscribe, auto tree{std::move(Tree_)}: read Tree_ ...  *)
UnsubReadTree(j) ==
    /\ job[j].pc = "u1"
    /\ job' = [job EXCEPT ![j].pc = "u2", ![j].t = sr[job[j].subr].tree]
    /\ UNCHANGED <<cur, sr, subs, released, nsub, nuns>>

(* Mutant: the null test of the moved-out Tree_ dropped.                  *)
UnsubClearTreeNoTest(j) ==
    /\ job[j].pc = "u2"
    /\ sr' = [sr EXCEPT ![job[j].subr].tree = FALSE]
    /\ job' = [job EXCEPT ![j].pc = "u3"]
    /\ UNCHANGED <<cur, subs, released, nsub, nuns>>

(* ... and null it; if (tree) goes on, a null one returns at once.        *)
UnsubClearTree(j) ==
    /\ job[j].pc = "u2"
    /\ sr' = [sr EXCEPT ![job[j].subr].tree = FALSE]
    /\ job' = IF job[j].t THEN [job EXCEPT ![j].pc = "u3"] ELSE Return(job, j)
    /\ UNCHANGED <<cur, subs, released, nsub, nuns>>

(* subConn = SubConn_; SubConn_ = nullptr.                                *)
UnsubTakeConn(j) ==
    /\ job[j].pc = "u3"
    /\ sr' = [sr EXCEPT ![job[j].subr].conn = FALSE]
    /\ job' = [job EXCEPT ![j].pc = "u4", ![j].c = sr[job[j].subr].conn]
    /\ UNCHANGED <<cur, subs, released, nsub, nuns>>

(* tree->OnTreeOp(... UnsubscribeUnsafe(subConn, *tab)), called back at  *)
(* once; leaving the scope releases the local reference to the tree.     *)
UnsubOnTreeOp(j) ==
    /\ job[j].pc = "u4"
    /\ subs' = IF job[j].c THEN subs \ {job[j].subr} ELSE subs
    /\ released' = [released EXCEPT ![job[j].subr] = @ + 1]
    /\ job' = Return(job, j)
    /\ UNCHANGED <<cur, sr, nsub, nuns>>

Unsubscribe(j) ==
    UnsubReadTree(j) \/ UnsubClearTree(j) \/ UnsubTakeConn(j) \/ UnsubOnTreeOp(j)

Next ==
    \/ NewSubscribe \/ RequestUnsubscribe
    \/ \E k \in Subrs : FoundTree(k) \/ RegisterSubscription(k) \/ CheckSuperseded(k)
    \/ \E i \in 1..MaxUnsubs : CompareCurrent(i) \/ TakeCurrent(i)
    \/ \E j \in Jobs : Unsubscribe(j)

Spec == Init /\ [][Next]_vars

-----------------------------------------------------------------------------
(* The variables keep their types; a thread inside UnsubscribeUnsafe's   *)
(* part of Unsubscribe holds a tree it moved out of Tree_.               *)
TypeOK ==
    /\ cur \in Subrs \cup {NoSubr}
    /\ sr \in [Subrs -> [tree: BOOLEAN, conn: BOOLEAN]]
    /\ subs \subseteq Subrs
    /\ released \in [Subrs -> Nat]
    /\ job \in [Jobs -> Frame]
    /\ nsub \in 0..MaxSubrs /\ nuns \in 0..MaxUnsubs
    /\ \A j \in Jobs : job[j].pc \in {"u3", "u4"} => job[j].t

(* The subscription the visitor holds in Subr_ is live: once its ticket  *)
(* has subscribed and found itself current, no concurrent unsubscribe,   *)
(* superseded ticket or "<u>" request removes it from the tree while it *)
(* is still Subr_.                                                        *)
CurrentStaysSubscribed ==
    cur # NoSubr /\ job[SubJob(cur)].pc = "done" => cur \in subs

(* NewSubscribe and the check after Subscribe are meant to leave only the *)
(* current subr subscribed: when every request has been handled, the    *)
(* tree holds no subscription of a superseded or unsubscribed subr.      *)
NoLeakedSubscription ==
    Quiescent => subs \subseteq {cur}

(* Each reference to the tree taken by Subscribe (Tree_) is released once: *)
(* two threads unsubscribing the same subr do not both release it.        *)
TreeReleasedOnce ==
    \A k \in Subrs : released[k] <= 1

(* A "<u>" ticket unsubscribes the subr it was given, never a newer one  *)
(* that replaced it in Subr_ after the comparison.                         *)
UnsubscribeHitsTarget ==
    \A i \in 1..MaxUnsubs :
        job[UnsJob(i)].subr \in {NoSubr, job[UnsJob(i)].target}
=============================================================================
