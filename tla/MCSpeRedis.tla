------------------------------ MODULE MCSpeRedis -----------------------------
(* Two clients, and every form a reply can take, nil and empty bulks among  *)
(* them.                                                                    *)
EXTENDS SpeRedis

CONSTANTS p, q

MCClients == {p, q}
MCReplies ==
  {<<"status">>, <<"nil">>, <<"zero", "empty">>, <<"bulk", "data">>,
   <<"array", "bulk", "data", "bulk", "data">>, <<"array", "nil", "bulk", "data">>}
=============================================================================
