------------------------------ MODULE MCRuntimes ------------------------------
(* Small environments and replies for Runtimes.                                *)
EXTENDS Runtimes

Env(provider, endpoint, attempts, image, key, block) ==
    [provider |-> provider, endpoint |-> endpoint, attempts |-> attempts,
     image |-> image, key |-> key, block |-> block]

\* Every provider, alone, missing its settings, or beside a broken one; the
\* threshold allows one run at a time, or two of which the first fails.
MCEnvironment ==
    {Env(p, e, a, i, k, 0) : p \in Provider \cup {""}, e \in BOOLEAN, a \in {-1, 0},
                             i \in BOOLEAN, k \in BOOLEAN}
    \cup {Env("http", TRUE, 3, FALSE, FALSE, block) : block \in {0, 8}}

MCUpdates == {Env("llm", TRUE, 3, FALSE, TRUE, 0)}

Usage(p, c, total) == [p |-> p, c |-> c, total |-> total]
None == Usage(0, 0, 0)
Reply(status, body, retryable, usage) ==
    [status |-> status, body |-> body, retryable |-> retryable, usage |-> usage]

\* One reply of each kind the runners tell apart, with a usage below, at and
\* above the estimate.
MCReplies ==
    {NoReply, Reply(201, "ok", FALSE, None), Reply(200, "garbled", FALSE, None),
     Reply(400, "structured", TRUE, None), Reply(400, "structured", FALSE, None),
     Reply(503, "garbled", FALSE, None), Reply(503, "too large", FALSE, None)}
    \cup {Reply(200, "ok", FALSE, u) : u \in {Usage(2, 2, 4), Usage(0, 0, 2), Usage(-1, 9, -1)}}

MCEstimate == [p |-> 2, c |-> 2]
===============================================================================
