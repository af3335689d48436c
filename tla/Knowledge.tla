------------------------------- MODULE Knowledge -------------------------------
(***************************************************************************)
(* Three parts of an institution's knowledge, side by side: the index of a  *)
(* file version, the FAQ or notice that is kept retrievable through a       *)
(* document, and the public chat that quotes the chunks.  Each part has its *)
(* own variables and its own specification; none reads those of another.    *)
(***************************************************************************)
EXTENDS IndexPipeline, FiniteSets

CONSTANTS Handlers,     \* requests of the record and of the public chat
          Wordings,
          Codes, Sources, Chunks, CodeOf, SourceOf,
          GlobalLimit, CodeLimit,
          MaxChanges

ASSUME HandlersAssumption ==
  /\ IsFiniteSet(Handlers)
  /\ None \notin Handlers \cup Wordings
  /\ None \notin [text : Wordings, published : BOOLEAN, active : BOOLEAN]

ASSUME ChunksAssumption == /\ CodeOf \in [Sources -> Codes]
                           /\ SourceOf \in [Chunks -> Sources]
                           /\ None \notin Codes

ASSUME LimitsAssumption == {GlobalLimit, CodeLimit, MaxChanges} \subseteq Nat

VARIABLES rec, sources, docs, vers, files, todo, overlap, trouble,
          tenants, open, live, active, perCode, req, changes, gone, readAt

Doc == INSTANCE CanonicalSync

Chat == INSTANCE PublicChat WITH Requests <- Handlers

TypesOK == TypeOK /\ Doc!TypeOK /\ Chat!TypeOK

\* The properties of CanonicalSync and PublicChat, where they are stated and explained.
CurrentWhenSerial == Doc!CurrentWhenSerial
LinearHistory     == Doc!LinearHistory
FilesAccounted    == Doc!FilesAccounted
PlacesExact       == Chat!PlacesExact
QuotesPublic      == Chat!QuotesPublic
================================================================================
