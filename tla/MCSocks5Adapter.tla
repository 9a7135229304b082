--------------------------- MODULE MCSocks5Adapter ---------------------------
(* A small instance of Socks5Adapter for TLC: what can go wrong, with the  *)
(* faults that meet each other.                                            *)
EXTENDS Socks5Adapter

Troubles ==
  {{}, {"early"}, {"timeout", "early", "stray"}, {"stray", "garbled", "timeout"}, {"timeout", "reset"},
   {"unreachable", "timeout", "early"}, {"lookup", "timeout"}, {"listen"}, {"listen", "refuses"},
   {"listen", "auth"}, {"listen", "activation"}, {"listen", "reset"},
   {"early", "reset", "timeout"}, {"timeout", "release", "early"}, {"release", "stray", "timeout"},
   {"abort", "early"}, {"listen", "abort", "hangup"}}

Mix == [faults : Troubles, writer : {"host", "dialler"}]
=============================================================================
