------------------------------ MODULE MCFilter ------------------------------
(* A name of one label, which is probed although it is an entry of a table; *)
(* a domain below an entry of each table, and of both; an entry itself.     *)
EXTENDS Filter

MCDomains == {<<"com">>, <<"b", "net">>, <<"d", "com">>, <<"x", "d", "com">>, <<"y", "e", "com">>}
MCProxies == {<<"com">>}
MCDirects == {<<"net">>, <<"d", "com">>}
=============================================================================
