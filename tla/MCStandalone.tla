--------------------------- MODULE MCStandalone ---------------------------
(***************************************************************************)
(* The parts of the repository that are checked on their own, each a model  *)
(* for itself: a behaviour is of one of them, alone, and the others         *)
(* stay in their initial states.                                            *)
(***************************************************************************)
EXTENDS LeakyBucket, TokenBucket, RedisQueue, RabbitQueue, Observer, ServiceMap, HttpConnect,
        Demo, XClient

VARIABLE alone  \* the part that runs

Parts == {"leaky", "token", "redis", "rabbit", "observer", "services", "http", "demo", "xclient"}

StandaloneInit ==
    /\ alone \in Parts
    /\ NewLeckyBucket /\ TokenInit /\ RedisInit /\ RabbitInit /\ ObserverInit /\ ServiceInit
    /\ HttpInit /\ DemoInit /\ Init
    /\ alone # "leaky" => uses = "Check"
    /\ alone # "redis" => fractions = 0

queueVars == <<redisVars, rabbitVars>>
limiterVars == <<leakyVars, tokenVars>>
rpcVars == <<serviceVars, httpVars, demoVars, vars>>
allVars == <<alone, limiterVars, queueVars, observerVars, rpcVars>>

StandaloneNext ==
    /\ UNCHANGED alone
    /\ \/ alone = "leaky" /\ LeakyNext /\ UNCHANGED <<tokenVars, queueVars, observerVars, rpcVars>>
       \/ alone = "token" /\ TokenNext /\ UNCHANGED <<leakyVars, queueVars, observerVars, rpcVars>>
       \/ alone = "redis" /\ RedisNext /\ UNCHANGED <<limiterVars, rabbitVars, observerVars, rpcVars>>
       \/ alone = "rabbit" /\ RabbitNext /\ UNCHANGED <<limiterVars, redisVars, observerVars, rpcVars>>
       \/ alone = "observer" /\ ObserverNext /\ UNCHANGED <<limiterVars, queueVars, rpcVars>>
       \/ alone = "services" /\ ServiceNext
          /\ UNCHANGED <<limiterVars, queueVars, observerVars, httpVars, demoVars, vars>>
       \/ alone = "http" /\ HttpNext
          /\ UNCHANGED <<limiterVars, queueVars, observerVars, serviceVars, demoVars, vars>>
       \/ alone = "demo" /\ DemoNext
          /\ UNCHANGED <<limiterVars, queueVars, observerVars, serviceVars, httpVars, vars>>
       \/ alone = "xclient" /\ Next
          /\ UNCHANGED <<limiterVars, queueVars, observerVars, serviceVars, httpVars, demoVars>>

\* The goroutines of Demo and of the servers in it run, and the timer of a context
\* expires; no call has to time out or break otherwise.
DemoFairness ==
    /\ WF_demoVars(alone = "demo" /\ Main)
    /\ WF_demoVars(alone = "demo" /\ RegistryStep)
    /\ \A s \in Backends : /\ WF_demoVars(alone = "demo" /\ ServerGoroutine(s))
                           /\ WF_demoVars(alone = "demo" /\ Serve(s))
    /\ \A g \in Goroutines : WF_demoVars(alone = "demo" /\ Caller(g))

\* The fairness of XClient's FairSpec.
XClientFairness ==
    /\ \A p \in Procs : /\ WF_vars(alone = "xclient" /\ Step(p))
                        /\ SF_vars(alone = "xclient" /\ (DialCached(p) \/ DialAnew(p)))
    /\ WF_vars(alone = "xclient" /\ BroadcastReturns)

StandaloneSpec ==
    StandaloneInit /\ [][StandaloneNext]_allVars /\ DemoFairness /\ XClientFairness

-----------------------------------------------------------------------------
CONSTANTS r1, r2, r3, r4, x, y, o1, o2, o3, s1, s2, g1, g2, c1

MCObjects == {o1, o2, o3}
MCRcvrs == {r1, r2, r3, r4}
\* Two types of each name, as two packages can have; one is not exported.
MCNameOf == [r \in MCRcvrs |-> IF r \in {r1, r2} THEN x ELSE y]
MCExported == {r1, r2, r3}
\* Sum and Sleep would be alike; the others differ from them in one point each.
MCSum == [ins |-> 3, outs |-> 1, error |-> TRUE, exported |-> TRUE, reply |-> "pointer"]
MCMethods ==
    {MCSum, [MCSum EXCEPT !.ins = 2], [MCSum EXCEPT !.outs = 2], [MCSum EXCEPT !.error = FALSE],
     [MCSum EXCEPT !.exported = FALSE], [MCSum EXCEPT !.reply = "elem"],
     [MCSum EXCEPT !.reply = "plain"]}
MCServers == {s1, s2}
MCGoroutines == {g1, g2}
MCCallers == {c1}
=============================================================================
