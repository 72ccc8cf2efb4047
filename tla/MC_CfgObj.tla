----------------------------- MODULE MC_CfgObj -----------------------------
(* Model-checking instance of CfgObj: two configuration connections, two  *)
(* objects of one schema, two requests per connection.                     *)
EXTENDS CfgObj

Req(op, o, re, e) == [op |-> op, obj |-> o, re |-> re, en |-> e]

\* Every handler path, on object 1 or on both objects.
AllReqs ==
    { Req("create", 2, {}, 1),
      Req("upd_key", 1, {}, 0), Req("upd_key", 1, {}, 1),
      Req("upd_re", 1, {1, 2}, 0),
      Req("del_key", 1, {}, -1), Req("del_re", 1, {1, 2}, -1),
      Req("query_key", 1, {}, -1), Req("query_all", 1, {}, -1),
      Req("export_all", 1, {}, -1),
      Req("export_key", 1, {}, -1) }

\* Two administrators setting object 1's enabled flag by name.
KeyUpdates == { Req("upd_key", 1, {}, 0), Req("upd_key", 1, {}, 1) }
=============================================================================
