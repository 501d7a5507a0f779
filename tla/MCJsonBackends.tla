--------------------------- MODULE MCJsonBackends ---------------------------
(* Three families of catalogs for TLC, each damaged in another table. *)
EXTENDS JsonBackends

CONSTANTS k1, k2, shown

SeqsUpTo(n, S) == UNION {[1..k -> S] : k \in 0..n}

Good(i) == [internal |-> i, provider |-> 0, dependency |-> i - 1, data |-> -1,
            primary |-> 0, type |-> 0]

Sound == [words |-> <<2, 0, 1, 0, 1, 2, 1, 0>>,
          keyHeader |-> <<2>>, keyRecords |-> <<k1, k2>>,
          entryHeader |-> <<2>>, entries |-> <<Good(0), Good(1)>>, extra |-> <<"value">>,
          internals |-> 2, providers |-> 1, types |-> 1,
          override |-> FALSE, display |-> <<>>]

\* Every bucket table of up to six words.
WithBuckets ==
    {[Sound EXCEPT !.words = w, !.keyHeader = IF w = <<>> THEN <<0>> ELSE <<w[1]>>,
                   !.keyRecords = r] :
        w \in SeqsUpTo(6, -1..2), r \in {<<k1, k2>>, <<k1, k1>>}}

\* Every key table of up to two records, and damaged headers.
WithKeys ==
    {[Sound EXCEPT !.keyHeader = h, !.keyRecords = r, !.entryHeader = e] :
        h \in {<<>>, <<-1>>, <<1>>, <<2>>, <<3>>}, r \in SeqsUpTo(2, KeyRecord),
        e \in {<<>>, <<-1>>, <<0>>, <<1>>, <<2>>, <<3>>}}

\* Every record with indexes at and beyond the ends of their lists, after a sound one.
WithEntries ==
    {[Sound EXCEPT !.words = <<1, 0, 1, 1>>, !.keyHeader = <<1>>, !.internals = 1,
                   !.entries = <<Good(0), r>>, !.extra = x,
                   !.override = o, !.display = IF o THEN <<shown>> ELSE <<>>] :
        r \in [internal : -1..1, provider : -1..1, dependency : -1..1, data : -1..1,
               primary : -1..1, type : -1..1],
        x \in SeqsUpTo(1, ExtraRecord), o \in BOOLEAN}

MCCatalogs == WithBuckets \cup WithKeys \cup WithEntries
=============================================================================
