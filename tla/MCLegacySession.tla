-------------------------- MODULE MCLegacySession --------------------------
EXTENDS LegacySession

\* A catalog of two locations under two keys, a string and a hash, the first with data, a type
\* and a list of dependencies; behind it what its fields may be replaced by.  Objects 7 and 18
\* are scalars.
MCCatalog ==
    <<[class |-> "catalog", Resources |-> 2, ProviderIds |-> 6, InstanceProviderData |-> 8],
      [class |-> "dict", items |-> <<<<7, 3>>, <<21, 4>>>>, copy |-> 0],        \* 2: Resources
      [class |-> "list", items |-> <<9>>, copy |-> 0],
      [class |-> "list", items |-> <<9, 10>>, copy |-> 0],
      [class |-> "dict", items |-> <<<<7, 4>>>>, copy |-> 0],                   \* 5: other Resources
      [class |-> "list", items |-> <<18>>, copy |-> 0],                         \* 6: ProviderIds
      [class |-> "scalar"],
      [class |-> "init", Id |-> 18],
      [class |-> "location", Dependencies |-> 11, Data |-> 15, data_type |-> 14, Type |-> 13,
       InternalId |-> 18],                                                      \* 9
      [class |-> "location", Dependencies |-> 18, Data |-> 18, data_type |-> 0, InternalId |-> 7],   \* 10
      [class |-> "list", items |-> <<10>>, copy |-> 0],                         \* 11: Dependencies
      [class |-> "list", items |-> <<10, 9>>, copy |-> 0],                      \* 12: others
      [class |-> "type", ClassName |-> 18], [class |-> "type", ClassName |-> 18],
      [class |-> "bundle", ComInfo |-> 16, Crc |-> 18],                         \* 15: Data
      [class |-> "common", Timeout |-> 18], [class |-> "common", Timeout |-> 18],
      [class |-> "scalar"],
      [class |-> "bundle", ComInfo |-> 16],                                     \* 19: other Data
      [class |-> "list", items |-> <<13>>, copy |-> 0],                         \* 20: other Data
      [class |-> "hash", Value |-> 18]>>                                        \* 21: a key

\* Resources, Dependencies and Data may be put back; the other two are kept as Data is.
MCValues ==
    {<<1, "Resources", 2>>, <<1, "Resources", 5>>, <<9, "Dependencies", 11>>, <<9, "Dependencies", 12>>,
     <<9, "Data", 15>>, <<9, "Data", 19>>, <<9, "Data", 20>>, <<9, "Type", 14>>, <<15, "ComInfo", 17>>}

\* Every kind of registry, with at most one method defined or overridden.
MCRegistries ==
    {NoRegistry} \cup {r \in [class : {"DecoderRegistry", "subclass"}, defines : SUBSET Method,
                             overrides : SUBSET Method] :
        Cardinality(r.defines) + Cardinality(r.overrides) <= 1 /\
        (r.class = "DecoderRegistry" => r.defines = {})}

\* A legacy call has a patcher or has none; a stream is for the internal entry only.
MCRequests ==
    {q \in [api : {"parse", "parse_json", "parse_binary", "_decode_binary_resources"},
            legacy : BOOLEAN, data : {"str", "bytes", "subclass", "bytearray", "stream"},
            sound : BOOLEAN, backend : {"auto", "python", "rust", "other"}, registry : MCRegistries] :
        /\ q.data = "stream" => q.api = "_decode_binary_resources"
        /\ q.api = "_decode_binary_resources" =>
              ~q.legacy /\ q.sound /\ q.data # "str"
        /\ q.legacy => q.registry.class = "none" \/ (q.registry.class = "subclass" /\ q.registry.defines = {"_resolve"})
        /\ q.data # "str" => q.api # "parse_json"
        /\ q.api = "parse_json" => q.registry.class = "none"}

MCExample ==
    [api |-> "parse_json", legacy |-> TRUE, data |-> "str", sound |-> TRUE, backend |-> "auto",
     registry |-> NoRegistry]
=============================================================================
