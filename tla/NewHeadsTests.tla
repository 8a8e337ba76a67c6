--------------------------- MODULE NewHeadsTests ---------------------------
(***************************************************************************)
(* The seven tests of starknet_subscribeNewHeads (mod test of              *)
(* crates/client/rpc/src/versions/v0_8_0/methods/ws/lib.rs), run against   *)
(* the handler of module NewHeads.                                         *)
(*                                                                         *)
(* A test is the script of what its task does, in order: store a block     *)
(* with the block generator, subscribe, await the next message and compare *)
(* it, unsubscribe.  The handler is another task of the same runtime: its  *)
(* steps fall anywhere between those of the test.  The test database does  *)
(* not fail, so no read of the backend does.                               *)
(***************************************************************************)
EXTENDS NewHeads

CONSTANT Tests    \* the names of the tests that are run

VARIABLES
    test,       \* the test that runs
    step,       \* the next line of its script
    verdict     \* "running", "passed", or "failed" (an assertion or expect)

testVars == <<test, step, verdict>>
allVars == <<vars, testVars>>

-----------------------------------------------------------------------------
(* What a test does *)

Generate         == [op |-> "generate"]
SubscribeTo(id)  == [op |-> "subscribe", id |-> id]
Expect(n)        == [op |-> "next", header |-> n]
ExpectNone       == [op |-> "none"]
Unsubscribe      == [op |-> "unsubscribe"]

\* generator.take(k).collect(): blocks 0 .. k-1 are stored.
Take(k) == [i \in 1..k |-> Generate]

subscribe_new_heads ==
    <<Generate, SubscribeTo(Latest), Expect(0)>>

subscribe_new_heads_many ==
    Take(BLOCK_PAST_LIMIT)
        \o <<SubscribeTo(Number(0))>>
        \o [i \in 1..BLOCK_PAST_LIMIT |-> Expect(i - 1)]

subscribe_new_heads_disconnect ==
    <<Generate, SubscribeTo(Number(0)), Expect(0), Unsubscribe>>

subscribe_new_heads_future ==
    <<Generate, SubscribeTo(Number(1)), Generate, Expect(1)>>

subscribe_new_heads_err_too_far_back_block_n ==
    Take(BLOCK_PAST_LIMIT + 2) \o <<SubscribeTo(Number(0)), ExpectNone>>

subscribe_new_heads_err_too_far_back_block_hash ==
    Take(BLOCK_PAST_LIMIT + 2) \o <<SubscribeTo(Hash(0)), ExpectNone>>

subscribe_new_heads_err_pending ==
    Take(BLOCK_PAST_LIMIT + 2) \o <<SubscribeTo(Pending), ExpectNone>>

Script ==
    [many      |-> subscribe_new_heads_many,
     latest    |-> subscribe_new_heads,
     disconnect |-> subscribe_new_heads_disconnect,
     future    |-> subscribe_new_heads_future,
     far_back_n    |-> subscribe_new_heads_err_too_far_back_block_n,
     far_back_hash |-> subscribe_new_heads_err_too_far_back_block_hash,
     pending   |-> subscribe_new_heads_err_pending]

ASSUME Tests \subseteq DOMAIN Script

-----------------------------------------------------------------------------
(* The test task *)

AtLine(op) ==
    /\ verdict = "running"
    /\ step <= Len(Script[test])
    /\ Script[test][step].op = op

Line == Script[test][step]

\* The test goes on to its next line, or stops at a failed assertion.
Check(holds) ==
    /\ verdict' = IF holds THEN verdict ELSE "failed"
    /\ step' = step + 1
    /\ test' = test

\* client.subscribe_new_heads(..).await returns when the server has
\* accepted the subscription; the lines after it run from then on.
Returned == pc # "accept"

BlockGenerator ==
    /\ AtLine("generate")
    /\ Returned
    /\ StoreBlock
    /\ Check(TRUE)

SubscribeNewHeads ==
    /\ AtLine("subscribe")
    /\ Subscribe(Line.id)
    /\ Check(TRUE)

\* The subscription has ended, by an error of the handler or by its return,
\* and nothing is left to read: sub.next() is None.
Ended == pc \in Terminal /\ sink = <<>>

\* sub.next().await, the two expects and the assert_eq on the header.
AwaitHeader ==
    /\ AtLine("next")
    /\ Returned
    /\ \/ sink # <<>> /\ ClientRead /\ Check(Head(sink) = Line.header)
       \/ Ended /\ UNCHANGED vars /\ Check(FALSE)

\* sub.next().await and assert!(next.is_none()).
NextIsNone ==
    /\ AtLine("none")
    /\ Returned
    /\ \/ sink # <<>> /\ ClientRead /\ Check(FALSE)
       \/ Ended /\ UNCHANGED vars /\ Check(TRUE)

\* sub.unsubscribe().await and assert!(next.is_ok()).
UnsubscribeIsOk ==
    /\ AtLine("unsubscribe")
    /\ Returned
    /\ ClientClose
    /\ Check(TRUE)

\* The test function returns: client, subscription and server handle are
\* dropped, which closes the connection if the test has not.
TestReturns ==
    /\ verdict = "running"
    /\ step = Len(Script[test]) + 1
    /\ verdict' = "passed"
    /\ closed' = TRUE
    /\ UNCHANGED <<backendVars, handlerVars, block_id, received, sink, test, step>>

TestTask ==
    \/ BlockGenerator
    \/ SubscribeNewHeads
    \/ AwaitHeader
    \/ NextIsNone
    \/ UnsubscribeIsOk
    \/ TestReturns

-----------------------------------------------------------------------------
TestInit ==
    /\ Init
    /\ test \in Tests
    /\ step = 1
    /\ verdict = "running"

TestNext ==
    \/ BlockGenerator
    \/ SubscribeNewHeads
    \/ AwaitHeader
    \/ NextIsNone
    \/ UnsubscribeIsOk
    \/ TestReturns
    \/ Handler /\ UNCHANGED testVars

\* Test and handler are tasks of one runtime, and each is polled while it
\* can take a step.
TestFairness == WF_allVars(TestTask) /\ WF_allVars(Handler /\ UNCHANGED testVars)

TestSpec == TestInit /\ [][TestNext]_allVars /\ TestFairness

-----------------------------------------------------------------------------
\* No assertion of a test depends on the schedule: wherever the steps of
\* the handler (accept, resolve, subscribe_block_info, catch-up, listen,
\* send) fall between the lines of the test, every header the test awaits
\* is the one it expects and every subscription it expects refused is
\* ended without a header.
TestsPass == verdict # "failed"

\* No test hangs: each `sub.next().await` of a test is answered, by a
\* header or by the end of the subscription, so the test function returns;
\* and the handler task it started returns once the test has dropped its
\* client (subscribe_new_heads leaves no task behind a finished test).
TestsFinish == <>(verdict = "passed" /\ pc \in Terminal)
=============================================================================
