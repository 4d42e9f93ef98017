-------------------------------- MODULE MCMux --------------------------------
EXTENDS Mux

Bytes3(a, b, c) == [x \in Streams |-> CASE x = 0 -> a [] x = 1 -> b [] x = 2 -> c]
S(opens, mine, theirs, callers, glob) ==
    [opens |-> opens, write |-> [e \in Ends |-> IF e = Opener THEN mine ELSE theirs],
     callers |-> callers, global |-> glob, closers |-> Ends, strays |-> 0, stray |-> {}]
Nothing == Bytes3(0, 0, 0)

MCStrayPackets ==
    {Pkt("reply", 0), Pkt("greply", 0), Pkt("ping", 0), Pkt("request", 7), Pkt("global", 0),
     [Pkt("open", 0) EXCEPT !.win = -1],
     Pkt("close", 0), Pkt("request", 0), [Pkt("confirm", 0) EXCEPT !.win = 7],
     [Pkt("adjust", 0) EXCEPT !.win = 6],
     [Pkt("data", 0) EXCEPT !.bytes = <<1>>], [Pkt("data", 0) EXCEPT !.x = 2, !.bytes = <<1>>]}

\* scenario s with up to n stray packets out of ps, closed by nobody but es
With(s, n, ps, es) == [s EXCEPT !.strays = n, !.stray = ps, !.closers = es]
Requests == {Pkt("request", 0)}

MCScenarios ==
    {S(1, Bytes3(3, 0, 0), Nothing, {}, FALSE),
     S(1, Nothing, Bytes3(0, 2, 1), {}, FALSE),
     S(1, Bytes3(1, 0, 0), Bytes3(1, 0, 0), {}, FALSE),
     S(1, Nothing, Nothing, {"r1", "r2"}, FALSE),
     S(2, Nothing, Nothing, {}, FALSE),
     With(S(1, Nothing, Nothing, {"r1"}, FALSE), 1, MCStrayPackets, {Opener}),
     With(S(0, Nothing, Nothing, {}, TRUE), 1, MCStrayPackets, Ends),
     \* more requests than fit into the queue of a channel that nobody may have
     With(S(1, Nothing, Nothing, {}, FALSE), 2, Requests, Ends),
     With(S(1, Nothing, Nothing, {"r1"}, FALSE), 2, Requests, {Opener}),
     With(S(1, Nothing, Nothing, {}, TRUE), 2, Requests, {Opener}),
     \* a channel closed before it is accepted or rejected, its number used again
     With(S(2, Nothing, Bytes3(3, 0, 0), {}, FALSE), 1, {Pkt("close", 0)}, {})}
=============================================================================
