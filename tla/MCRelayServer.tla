---------------------------- MODULE MCRelayServer ----------------------------
\* Connections for model checking RelayServer: p registers from two addresses,
\* consumers want a request and a stream forwarded to it.
EXTENDS RelayServer, TLC

CONSTANTS c1, c2, f, s, north, south

MCConn == {c1, c2, f, s}
MCFrom == c1 :> north @@ c2 :> south @@ f :> north @@ s :> north
MCAsks == c1 :> "relay.register" @@ c2 :> "relay.register"
          @@ f :> "relay.forward" @@ s :> "relay.stream"
MCOf == [c \in MCConn |-> "p"]
=============================================================================
