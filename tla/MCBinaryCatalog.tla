--------------------------- MODULE MCBinaryCatalog ---------------------------
(***************************************************************************)
(* Catalogs for BinaryCatalog: one sound catalog of 72 words, with every   *)
(* kind of record in it, and what changing it makes of it.                 *)
(***************************************************************************)
EXTENDS BinaryCatalog

MCNULL == 99

\* The one word that names no string: among strings it is wrong, elsewhere beyond the end.
Torn == 97
MCUnreadable == {Torn}

\* Where the records of the sound catalog are.
List1 == 14
List2 == 16
Own == 19
Type1 == 25
Type2 == 27
Data == 33
Scalar == 35
L1 == 38
L2 == 45
Type3 == 52
Bundle == 54
Hash == 59
Common == 63
Bundle2 == 65
Data2 == 70

\* Header; the table, of an int and a string; the lists of their locations; the
\* dependencies of the first, shared with the second list; the providers; a provider;
\* two types; the objects and the payloads; the locations; a bundle with its type,
\* and another with the same common info.
Sound ==
    <<0, 2, 9, 70, 22, 22, 21, 71>>
    \o <<16, 29, 14, 31, 16>> \o <<4, L1>> \o <<8, L1, L2>> \o <<4, L2>> \o <<4, 22>>
    \o <<72, Type1, 73>> \o <<1, 1>> \o <<1, 4>>
    \o <<Type1, 35, Type2, 36, Type3, Bundle>> \o <<1, 74, 47>>
    \o <<75, 76, 77, Own, 5, Data, Type1>> \o <<78, 79, 77, MCNULL, 6, MCNULL, Type2>>
    \o <<1, 6>> \o <<Hash, 80, 7, 8, Common>> \o <<11, 12, 13, 14>> \o <<15, 16>>
    \o <<Hash, 81, 9, 10, Common>> \o <<Type3, Bundle2>>

Changed(c, at) == [i \in DOMAIN c |-> IF i - 1 \in DOMAIN at THEN at[i - 1] ELSE c[i]]

Only(d) == [data |-> d, calls |-> 0, acts |-> {}]

\* An object of every type, named in every way, with every payload, in every version.
Objects ==
    {Only(Changed(Sound, 1 :> v @@ Type3 :> assembly @@ Type3 + 1 :> class @@ Data + 1 :> payload)) :
        v \in 1..3, assembly \in {1, 2, 3, MCNULL}, class \in 1..7 \cup {MCNULL},
        payload \in {Scalar, Bundle, MCNULL}}

\* Types, lists, bundles and common infos that are shared, or missing; keys that are
\* equal; locations that depend on one another.
Sharing ==
    {Only(Changed(Sound, 9 :> key1 @@ 11 :> key2 @@ 12 :> list @@ L2 + 3 :> depends @@ L2 + 5 :> object)) :
        key1 \in {29, MCNULL}, key2 \in {29, 31, Data, MCNULL}, list \in {List1, List2, MCNULL},
        depends \in {Own, List1, List2, MCNULL}, object \in {29, Data, Data2, MCNULL}}

\* The sound catalog cut short anywhere, and with any one of its words wrong.
Damaged ==
    {Only(SubSeq(Sound, 1, n)) : n \in 0..Len(Sound)}
    \cup {Only(Changed(Sound, p :> x)) :
            p \in 1..Len(Sound) - 1, x \in {0, 1, 3, 6, 8, 9, 12, Len(Sound) - 1, Len(Sound), Torn, MCNULL}}

\* One of the names of the first location wrong, and with it what its dependency, which
\* may be the location itself, comes to.
Nameless ==
    {Only(Changed(Sound, L1 + k :> Torn @@ Own :> depends @@ L2 + 5 :> object @@ Type1 + 1 :> class @@ L1 + 3 :> list)) :
        k \in 0..2, depends \in {L1, L2}, object \in {29, Data, MCNULL}, class \in {1, 7},
        list \in {Own, Own + 1, MCNULL}}

\* The header of version 1 without the build hash: the table begins where it was.
ShortHeader == Only(Changed(Sound, 1 :> 1 @@ 2 :> 8 @@ 7 :> 16 @@ 8 :> 29 @@ 9 :> 14 @@ 10 :> 31 @@ 11 :> 16))

\* A custom decoder overwrites the scalar a later object is read from, or keeps something
\* where a record is that may have been read or not, or is being read.
Places == {List2, Own, Type1, Type3, L1, L2, Bundle, Common}

Scribbled ==
    {[data |-> Changed(Sound, 11 :> key2 @@ 30 :> Scalar @@ Type1 + 1 :> class @@ L1 + 1 :> name @@ L2 + 3 :> depends),
      calls |-> 0,
      acts |-> ({"stream"} \X {Scalar, Type1, Hash} \X {55})
               \cup ({"object", "none"} \X Places \X {0}) \cup ({"list"} \X Places \X {L1, Data})] :
        class \in 1..3, key2 \in {29, 31}, name \in {76, Torn}, depends \in {Own, MCNULL}}

\* Two calls to the reader of a catalog that ends soon.
Called == {[Only(SubSeq(Sound, 1, n)) EXCEPT !.calls = 2] : n \in 8..10}
MCCounts == -1..2
MCPositions == -1..11

MCCatalogs == Objects \cup Sharing \cup Damaged \cup Nameless \cup {ShortHeader} \cup Scribbled \cup Called

\* The empty list of dependencies of the first location is followed by a location: both
\* begin at the same offset, and the second list of the table names it.
Adjacent ==
    LET next == Len(Sound) + 1
    IN  {Only(Changed(Sound, L1 + 3 :> next @@ List2 + 1 :> location @@ Own :> location)
                \o <<0>> \o SubSeq(Sound, L2 + 1, L2 + 7)) : location \in {L2, next}}
=============================================================================
