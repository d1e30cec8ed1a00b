------------------------------ MODULE Throttle ------------------------------
(***************************************************************************)
(* The rate limit: RedisThrottlerStorage.increment                         *)
(* (redis-throttler.storage.ts), which the guard of app.module.ts asks     *)
(* about every request.  A handler and a caller have a counter of hits and *)
(* a block in Redis, each a key that expires.  The calls of increment are  *)
(* Redis commands of their own, so those of concurrent requests, expiry,   *)
(* failures and the death of the process fall between them.                *)
(*                                                                         *)
(* The module is about one caller of one handler.  Time is what is left of *)
(* the two keys.                                                           *)
(***************************************************************************)
EXTENDS Integers

CONSTANTS
  Served,     \* requests of the caller served at a time
  Limit,      \* hits allowed in a window
  Window,     \* length of a window
  Block,      \* length of a block
  MaxFailures \* bound: times Redis fails or the process dies

ASSUME ThrottleAssumption ==
  /\ Limit \in Nat \ {0}
  /\ Window \in Nat \ {0} /\ Block \in Nat \ {0}
  /\ Window <= Block
  /\ MaxFailures \in Nat

VARIABLES
  hits,     \* hitsKey: count, and time to live; -1 when the key never expires
  block,    \* blockKey: time to live, 0 when there is no key
  served,   \* requests
  last,     \* how the last request ended
  broken,   \* whether a request failed between two commands of this window
  failures

throttleVars == <<hits, block, served, last, broken, failures>>

\* Counts above the limit all act alike and are not told apart.
OneMore(count) == IF count > Limit THEN count ELSE count + 1
NoKey == [count |-> 0, ttl |-> 0]
Pc == {"idle", "pttlHits", "incr", "pexpire", "set"}
NoRequest == [pc |-> "idle", blockTtl |-> 0, ttlBefore |-> 0, total |-> 0]

ThrottleTypeOK ==
  /\ hits \in [count : 0..Limit + 1, ttl : -1..Window]
  /\ hits.count = 0 <=> hits.ttl = 0
  /\ block \in 0..Block
  /\ \A p \in Served : served[p].pc \in Pc /\ served[p].ttlBefore \in -2..Window
  /\ last \in {"none", "let", "blocked", "failedOpen"}
  /\ broken \in BOOLEAN
  /\ failures \in 0..MaxFailures

ThrottleInit ==
  /\ hits = NoKey /\ block = 0
  /\ served = [p \in Served |-> NoRequest]
  /\ last = "none" /\ broken = FALSE /\ failures = 0

At(p, pc) == served[p].pc = pc
Turns(p, rec) == served' = [served EXCEPT ![p] = rec]

\* PTTL of hitsKey: -2 without the key, -1 without expiry.
Pttl == IF hits.count = 0 THEN -2 ELSE hits.ttl

\* The first PTTL.
PttlBlock(p) ==
  /\ At(p, "idle")
  /\ Turns(p, [NoRequest EXCEPT !.pc = "pttlHits", !.blockTtl = block])
  /\ UNCHANGED <<hits, block, last, broken, failures>>

\* The second PTTL; a blocked caller's hits are read and not counted.
PttlHits(p) ==
  /\ At(p, "pttlHits")
  /\ IF served[p].blockTtl > 0
     THEN Turns(p, NoRequest) /\ last' = "blocked"
     ELSE Turns(p, [NoRequest EXCEPT !.pc = "incr", !.ttlBefore = Pttl]) /\ UNCHANGED last
  /\ UNCHANGED <<hits, block, broken, failures>>

\* What the request does when its hit has been counted and the window is set.
Judge(p, total) ==
  IF total > Limit
  THEN Turns(p, [NoRequest EXCEPT !.pc = "set"]) /\ UNCHANGED last
  ELSE Turns(p, NoRequest) /\ last' = "let"

\* Mistaken: only the first hit sets the window.
IncrTrusts(p) ==
  LET total == OneMore(hits.count) IN
  /\ At(p, "incr")
  /\ hits' = [count |-> total, ttl |-> IF hits.count = 0 THEN -1 ELSE hits.ttl]
  /\ IF total = 1
     THEN /\ Turns(p, [served[p] EXCEPT !.pc = "pexpire", !.total = total])
          /\ UNCHANGED last
     ELSE Judge(p, total)
  /\ UNCHANGED <<block, broken, failures>>

\* Mistaken: a window that was there is not set again.
IncrTrustsPttl(p) ==
  LET total == OneMore(hits.count) IN
  /\ At(p, "incr")
  /\ hits' = [count |-> total, ttl |-> IF hits.count = 0 THEN -1 ELSE hits.ttl]
  /\ IF served[p].ttlBefore < 0
     THEN /\ Turns(p, [served[p] EXCEPT !.pc = "pexpire", !.total = total])
          /\ UNCHANGED last
     ELSE Judge(p, total)
  /\ UNCHANGED <<block, broken, failures>>

Incr(p) ==
  LET total == OneMore(hits.count) IN
  /\ At(p, "incr")
  /\ hits' = [count |-> total, ttl |-> IF hits.count = 0 THEN -1 ELSE hits.ttl]
  /\ IF total = 1 \/ served[p].ttlBefore < 0
     THEN /\ Turns(p, [served[p] EXCEPT !.pc = "pexpire", !.total = total])
          /\ UNCHANGED last
     ELSE Judge(p, total)
  /\ UNCHANGED <<block, broken, failures>>

\* PEXPIRE, of a key that may have expired, and the third PTTL.
Pexpire(p) ==
  /\ At(p, "pexpire")
  /\ hits' = IF hits.count = 0 THEN hits ELSE [hits EXCEPT !.ttl = Window]
  /\ Judge(p, served[p].total)
  /\ UNCHANGED <<block, broken, failures>>

Set(p) ==
  /\ At(p, "set")
  /\ block' = Block
  /\ Turns(p, NoRequest) /\ last' = "blocked"
  /\ UNCHANGED <<hits, broken, failures>>

\* A command fails and the request is let through, or the process dies.
Fail(p) ==
  /\ ~At(p, "idle")
  /\ failures < MaxFailures /\ failures' = failures + 1
  /\ broken' = TRUE
  /\ last' \in {"failedOpen", last}
  /\ Turns(p, NoRequest)
  /\ UNCHANGED <<hits, block>>

TimePasses ==
  /\ hits.ttl > 0 \/ block > 0
  /\ hits' = CASE hits.ttl > 1 -> [hits EXCEPT !.ttl = @ - 1]
               [] hits.ttl = 1 -> NoKey
               [] OTHER -> hits
  /\ block' = IF block > 0 THEN block - 1 ELSE 0
  /\ broken' = (broken /\ hits'.count > 0)
  /\ UNCHANGED <<served, last, failures>>

Continue(p) == PttlHits(p) \/ Incr(p) \/ Pexpire(p) \/ Set(p)

ThrottleNext == (\E p \in Served : PttlBlock(p) \/ Continue(p) \/ Fail(p)) \/ TimePasses

ThrottleSpec == ThrottleInit /\ [][ThrottleNext]_throttleVars

\* Requests go on and time passes.
ThrottleFairness == WF_throttleVars(TimePasses) /\ \A p \in Served : WF_throttleVars(Continue(p))

\* A caller that keeps calling.
ThrottleFairSpec == ThrottleSpec /\ ThrottleFairness /\ \A p \in Served : WF_throttleVars(PttlBlock(p))

-----------------------------------------------------------------------------
\* A counter that never expires is left only by a failure, whatever expires
\* between the PTTL of a request and its INCR.
CountersExpire ==
  (\A p \in Served : At(p, "idle")) /\ hits.count > 0 /\ ~broken => hits.ttl > 0

\* A caller is not shut out for good, even by a counter that a failure between INCR
\* and PEXPIRE has left without expiry.
CallerGetsThrough == []<>(last \in {"let", "failedOpen"})
=============================================================================
