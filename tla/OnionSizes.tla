------------------------------ MODULE OnionSizes ------------------------------
(***************************************************************************)
(* examples/onion_sizes.rs: besides what WireTrip does with onions and     *)
(* Sphinx artefacts, they are made, serialized and measured.  A row is one *)
(* line that the program prints.                                           *)
(***************************************************************************)
EXTENDS WireTrip

CONSTANTS
  PathLengths,        \* bound: the path lengths of the rows
  RowPayloads         \* the payload sizes of the rows

ASSUME RowsAssumption == PathLengths \subseteq Nat \ {0} /\ RowPayloads \subseteq Nat

(* onion_sizes.sh builds the program once for every path length. *)
Onion(path_length)      == INSTANCE OnionWire WITH MaxPathLength <- path_length
SphinxFor(path_length)  == INSTANCE SphinxWire WITH MAX_PATH_LENGTH <- path_length

Rows == [kind : {"row"}, path_length : PathLengths, payload : RowPayloads]

(* generate_onion, serialized; and generate_sphinx_onion, whose payload    *)
(* has room for a SURB that is taken to be as long as a header.            *)
row(path_length, payload) ==
  LET link == [role |-> "Hop", payload |-> payload]
      header_size == SphinxFor(path_length)!HEADER_SIZE
  IN  [eror   |-> Len(Onion(path_length)!serialize(Onion(path_length)!Sent(link))),
       sphinx |-> header_size + payload + header_size
                    + Sphinx!Format!Payload!PAYLOAD_OVERHEAD_SIZE]

InitWithRows ==
  \/ Init
  \/ artefact \in Rows /\ change = Untouched /\ result = Pending

PrintRow ==
  /\ result = Pending /\ artefact.kind = "row"
  /\ result' = row(artefact.path_length, artefact.payload)
  /\ UNCHANGED <<artefact, change>>

NextWithRows == Next \/ PrintRow

SpecWithRows == InitWithRows /\ [][NextWithRows]_vars

-----------------------------------------------------------------------------
(* ARTIFACT-APPENDIX.md prints the table for one hop. *)
PublishedEror ==
  (0 :> 304) @@ (128 :> 560) @@ (256 :> 816) @@ (512 :> 1328) @@ (1024 :> 2352)
    @@ (2048 :> 4400) @@ (4096 :> 8496)
PublishedSphinx ==
  (0 :> 233) @@ (128 :> 361) @@ (256 :> 489) @@ (512 :> 745) @@ (1024 :> 1257)
    @@ (2048 :> 2281) @@ (4096 :> 4329)

(* The rows are those that the artifact's appendix prints, and both sizes  *)
(* grow linearly with the path length: a path of length n costs a          *)
(* repliable onion two headers of n cells, whatever else its sections and  *)
(* their borders hold.                                                     *)
SizesAsPublished ==
  Has("row") =>
    LET n == artefact.path_length
        p == artefact.payload
    IN  /\ n = 1 => result = [eror |-> PublishedEror[p], sphinx |-> PublishedSphinx[p]]
        /\ result.eror   = 2 * (124 * n + p) + 56
        /\ result.sphinx = 2 * (60 * n + 48) + p + 17
=============================================================================
