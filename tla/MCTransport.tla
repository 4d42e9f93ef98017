------------------------------ MODULE MCTransport -----------------------------
(***************************************************************************)
(* A scenario: per end its lists, host keys (the client: algorithms), what *)
(* it writes, whether it announces strict mode and ext-info, guesses, adds *)
(* ignore packets or sends bad values, and its gex request; and            *)
(* the exchanges whose host key the client refuses, the ends that may      *)
(* Close or stop reading, and whether all goes well.                       *)
(***************************************************************************)
EXTENDS Transport

Both(list) == [d \in Directions |-> list]

Side(kex, ciphers, host, write) ==
    [kex |-> kex, ciphers |-> ciphers, macs |-> <<"hmac">>, host |-> host, write |-> write,
     strict |-> TRUE, ext |-> TRUE, guess |-> FALSE, gex |-> GexRequest, noise |-> FALSE, bad |-> FALSE]

Scene(c, s, well) == [c |-> c, s |-> s, reject |-> {}, closes |-> {}, quits |-> {}, well |-> well]

D(n) == [i \in 1 .. n |-> "data"]
Client(n) == Side(<<"curve25519", "dh">>, Both(<<"gcm", "chacha">>), <<"ed25519", "rsa-sha2">>, D(n))
Server(n) == Side(<<"mlkem", "curve25519", "dh">>, Both(<<"chacha", "gcm">>), <<"rsa", "ed25519">>, D(n))
Foreign(c) == [c EXCEPT !.strict = FALSE, !.ext = FALSE]

MCScenarios ==
    {Scene(Client(4), Server(0), TRUE),
     Scene(Client(2), Server(2), TRUE),
     Scene([Client(2) EXCEPT !.ciphers["cs"] = <<"chacha">>, !.ciphers["sc"] = <<"stream">>],
           [Server(1) EXCEPT !.ciphers = Both(<<"stream", "chacha">>)], TRUE),
     \* a guess that is right, and one that is wrong
     Scene([Foreign(Client(1)) EXCEPT !.guess = TRUE, !.kex = <<"gex">>, !.gex.pref = 3, !.host = <<"rsa-sha2">>],
           [Server(1) EXCEPT !.kex = <<"gex">>], TRUE),
     Scene([Client(1) EXCEPT !.guess = TRUE, !.kex = <<"ecdh", "dh">>],
           [Server(1) EXCEPT !.kex = <<"dh", "ecdh">>, !.ciphers = Both(<<"cbc", "gcm">>)], TRUE),
     Scene([Foreign(Client(0)) EXCEPT !.write = <<"ignore", "data", "ignore">>, !.kex = <<>>, !.noise = TRUE], Server(2), TRUE),
     \* what goes wrong
     Scene([Client(0) EXCEPT !.kex = <<"ecdh">>], Server(0), FALSE),
     Scene([Foreign(Client(0)) EXCEPT !.kex = <<"gex">>, !.gex = [min |-> 5, pref |-> 6, max |-> 8]],
           [Server(0) EXCEPT !.kex = <<"gex">>], FALSE),
     Scene([Client(0) EXCEPT !.noise = TRUE], Server(0), FALSE),
     Scene(Client(0), [Server(0) EXCEPT !.bad = TRUE], FALSE),
     Scene([Client(0) EXCEPT !.write = <<"data", "disconnect">>], Server(1), FALSE),
     [Scene(Client(3), Server(1), FALSE) EXCEPT !.reject = {1, 2}, !.closes = {"s"}],
     [Scene(Client(2), Server(1), FALSE) EXCEPT !.closes = {"c"}],
     [Scene(Client(1), Server(1), FALSE) EXCEPT !.reject = {1}]}

MCQuit == {[Scene(Client(0), Server(4), FALSE) EXCEPT !.quits = {"c"}]}

MCKnownKex == {"curve25519", "curve25519-libssh", "dh", "ecdh", "gex", "mlkem"}
MCKnownCiphers == {"stream", "cbc", "gcm", "chacha"}
MCDefaultKex == <<"mlkem", "curve25519">>
MCDefaultCiphers == <<"gcm">>
=============================================================================
