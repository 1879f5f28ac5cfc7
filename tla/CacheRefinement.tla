---------------------------- MODULE CacheRefinement ----------------------------
(***************************************************************************)
(* SourceDownload implements AtomicCache: of the two files that hold a     *)
(* copy and its description and are replaced one after the other, nobody   *)
(* is answered with the content of one fetch and the description of        *)
(* another, or with a file that is still partial.  What a copy contains is *)
(* another matter: without a validator the end of a newer version, or a    *)
(* source that is whole again, may have followed what an earlier answer    *)
(* had left, and a body of no announced length may have been cut short.    *)
(***************************************************************************)
EXTENDS SourceDownload

\* No file and no metadata look like absent ones.
ASSUME NoneAssumption ==
  LET Contents == Seq([version : Nat, index : Nat]) IN
  /\ None \notin Contents
  /\ None \notin [content : Contents, fresh : BOOLEAN, sized : BOOLEAN]
  /\ None \notin [content : Contents, sized : BOOLEAN]

\* Content and its description: blocks in their order, all of them if the answer
\* that completed the content announced how many there are.
Copies ==
  {copy \in [content : Seq([version : {0} \cup Versions, index : Nat]), sized : BOOLEAN] :
     AsAnnounced(copy.content, copy.sized)}

\* The two files belong together, or both are absent.
Paired == IF data = None THEN meta = None ELSE meta # None /\ meta.content = data

\* What there is to find: the content as its metadata describes it.
Described == IF meta = None THEN None ELSE [content |-> data, sized |-> meta.sized]
Shown == IF Paired THEN Described ELSE None

\* The path that fetch has returned, and what the metadata beside it says.
Answer == IF op.at = "idle" /\ outcome \in {"cached", "fetched"} THEN Described ELSE None

Promise == INSTANCE AtomicCache WITH
  shown     <- Shown,
  sound     <- Paired,
  replacing <- op.at = "installed",
  answer    <- Answer

\* Whatever is lost, resumed, redirected, challenged, withdrawn or killed between
\* the two replacements, each answer of a fetch is content with the description
\* that was written for it; and a cache that was left between them is never taken
\* for sound again.
CacheIsAtomic == Promise!Spec
=============================================================================
