---------------------------- MODULE HandlerTable ----------------------------
(***************************************************************************)
(* The request-name lookup of the dispatch engine                        *)
(* (src/ldms/src/ldmsd/ldmsd_request.c): __process_msg_requests finds    *)
(* the handler of a request's "request" name with bsearch over           *)
(* request_handler_tbl, comparing names with request_handler_entry_cmp   *)
(* (strcmp).  bsearch is only an exact-match lookup when the table is    *)
(* sorted by that comparison and its names are distinct, which is kept   *)
(* by hand in the table's initializer.                                    *)
(*                                                                         *)
(* Names are what the property is about, so they are kept as the         *)
(* sequences of their characters, and strcmp compares character codes.   *)
(* A table entry is its name; the handler and the permission flag are    *)
(* left out (the flag is never read by the dispatch).                    *)
(***************************************************************************)
EXTENDS Naturals, Integers, Sequences

\* The byte value of the characters request names are made of.
Lower == <<"a", "b", "c", "d", "e", "f", "g", "h", "i", "j", "k", "l", "m",
           "n", "o", "p", "q", "r", "s", "t", "u", "v", "w", "x", "y", "z">>
Code(ch) == IF ch = "_" THEN 95 ELSE 96 + (CHOOSE i \in 1..26 : Lower[i] = ch)

\* strcmp: the sign of the difference of the first differing bytes, the
\* terminating NUL (0) of the shorter string included.
RECURSIVE Strcmp(_, _)
Strcmp(a, b) ==
    CASE a = <<>> /\ b = <<>> -> 0
      [] a = <<>>             -> -1
      [] b = <<>>             -> 1
      [] Head(a) /= Head(b)   -> IF Code(Head(a)) < Code(Head(b)) THEN -1 ELSE 1
      [] OTHER                -> Strcmp(Tail(a), Tail(b))

\* request_handler_entry_cmp: strcmp of the two entries' request names;
\* bsearch passes the key (&type_s, read as an entry) first.
RequestHandlerEntryCmp(key, entry) == Strcmp(key, entry)

Create    == <<"c","r","e","a","t","e">>
Delete    == <<"d","e","l","e","t","e">>
Export    == <<"e","x","p","o","r","t">>
Query     == <<"q","u","e","r","y">>
SetRoute  == <<"s","e","t","_","r","o","u","t","e">>
StreamSub == <<"s","t","r","e","a","m","_","s","u","b","s","c","r","i","b","e">>
TestProto == <<"t","e","s","t","_","p","r","o","t","o","c","o","l">>
Update    == <<"u","p","d","a","t","e">>
Version   == <<"v","e","r","s","i","o","n">>

\* Mutant of RequestHandlerTbl: an entry added out of order.
RequestHandlerTblUnsorted ==
    <<Create, Delete, Export, Query, StreamSub, SetRoute, TestProto, Update, Version>>

\* request_handler_tbl, in its initializer's order.
RequestHandlerTbl ==
    <<Create, Delete, Export, Query, SetRoute, StreamSub, TestProto, Update, Version>>

\* bsearch(key, tbl, nmemb, ...): halve [l, u) until the middle entry
\* compares equal (its index) or the range is empty (0, NULL).
RECURSIVE BSearch(_, _, _, _)
BSearch(key, tbl, l, u) ==
    IF l >= u THEN 0
    ELSE LET idx == (l + u) \div 2
             cmp == RequestHandlerEntryCmp(key, tbl[idx + 1])
         IN  CASE cmp < 0 -> BSearch(key, tbl, l, idx)
               [] cmp > 0 -> BSearch(key, tbl, idx + 1, u)
               [] OTHER   -> idx + 1

\* __process_msg_requests' lookup of the request name n.
HandlerLookup(n) ==
    BSearch(n, RequestHandlerTbl, 0, Len(RequestHandlerTbl))

\* The names looked up: every handler's name, and names that are not in
\* the table but sort before, between and after its entries, or are a
\* prefix of one ("test_protocol" / "test", "stream_subscribe" / "stream").
Probes ==
    {RequestHandlerTbl[i] : i \in 1..Len(RequestHandlerTbl)}
    \cup {<<>>, <<"a">>, <<"s","e","t">>, <<"s","t","r","e","a","m">>,
          <<"t","e","s","t">>, <<"u","p","d","a","t","e","s">>, <<"z">>}

\* The reference: bsearch finds an entry exactly when some entry has the
\* name, and then that entry; otherwise the request is answered "not
\* supported".  This holds only while the initializer keeps the entries
\* sorted by strcmp and distinct.
LookupExact ==
    \A n \in Probes :
        LET i == HandlerLookup(n) IN
        IF \E j \in 1..Len(RequestHandlerTbl) : RequestHandlerTbl[j] = n
        THEN i /= 0 /\ RequestHandlerTbl[i] = n
        ELSE i = 0
=============================================================================
