------------------------------ MODULE Provenance ------------------------------
(***************************************************************************)
(* The provenance keeper (x/provenance/keeper/keeper.go): a record per     *)
(* certificate of energymint, with the documents behind it and a chain of  *)
(* custody.  Of a document only its type is kept.  The module has no       *)
(* messages: its keeper is called from Go, with any arguments, and nothing *)
(* in it asks the other keepers.                                           *)
(***************************************************************************)
EXTENDS EnergyMint, Sequences, SequencesExt

CONSTANTS
    Documents,      \* document types that documents come with
    Accepted,       \* params.AcceptedDocumentTypes
    Holders,        \* accounts that hold certificates
    MaxDocuments,   \* params.MaxDocumentsPerRecord, 20 in the code
    MaxCustody      \* bound

Nobody == "nobody"  \* the nil address

ASSUME ProvenanceAssumption ==
    /\ Accepted \subseteq Documents
    /\ Holders \subseteq Addrs
    /\ MaxDocuments \in Nat /\ MaxCustody \in Nat

VARIABLES
    records,        \* stored records, by number
    recordOf,       \* CertToProvenance: certificate -> number of its record
    recordCount     \* ProvenanceCountKey

provenanceVars == <<records, recordOf, recordCount>>

ProvenanceInit == records = <<>> /\ recordOf = <<>> /\ recordCount = 0

Custody == [from : Addrs \cup {Nobody}, to : Addrs]

Record == [cert : Certs, documents : Seq(Documents), custody : Seq(Custody)]

\* A function like f that takes x to y, whether or not x was in its domain.
With(f, x, y) == [z \in DOMAIN f \cup {x} |-> IF z = x THEN y ELSE f[z]]

\* Mutated form of NextRecord: the count is read and not stored.
CountNotStored == UNCHANGED recordCount

\* GenerateRecordID
NextRecord == recordCount' = recordCount + 1

\* Mutated form of HasProvenance: the index is asked for a record's number.
HasNumbered(cert) == cert \in DOMAIN records

HasProvenance(cert) == cert \in DOMAIN recordOf

\* `energy' tells whether the energy type is accepted.
CreateProvenanceRecord(cert, documents, energy, creator) ==
    LET id == recordCount + 1 IN
    /\ documents # <<>>
    /\ Len(documents) <= MaxDocuments
    /\ energy
    /\ \A i \in DOMAIN documents : documents[i] \in Accepted
    /\ ~HasProvenance(cert)
    /\ NextRecord
    /\ records' = With(records, id,
          [cert |-> cert, documents |-> documents,
           custody |-> <<[from |-> Nobody, to |-> creator]>>])
    /\ recordOf' = With(recordOf, cert, id)

\* Any type of document may be added.
AddDocumentToRecord(id, document) ==
    /\ id \in DOMAIN records
    /\ Len(records[id].documents) + 1 <= MaxDocuments
    /\ records' = [records EXCEPT ![id].documents = Append(@, document)]
    /\ UNCHANGED <<recordOf, recordCount>>

\* `from' need not be the holder before.
RecordCustodyTransfer(id, from, to) ==
    /\ id \in DOMAIN records
    /\ Len(records[id].custody) < MaxCustody
    /\ records' = [records EXCEPT
          ![id].custody = Append(@, [from |-> from, to |-> to])]
    /\ UNCHANGED <<recordOf, recordCount>>

\* Up to one document more than a record takes.
Submitted == BoundedSeq(Documents, MaxDocuments + 1)

ProvenanceStep ==
    \/ \E cert \in Certs, documents \in Submitted, energy \in BOOLEAN,
          creator \in Holders : CreateProvenanceRecord(cert, documents, energy, creator)
    \/ \E id \in DOMAIN records :
          \/ \E document \in Documents : AddDocumentToRecord(id, document)
          \/ \E from, to \in Holders : RecordCustodyTransfer(id, from, to)

-----------------------------------------------------------------------------
(* Properties.                                                             *)

\* The index and the records agree: each certificate in it leads to its own
\* record, every record is led to, and no number was given twice (the two
\* writes of CreateProvenanceRecord and GenerateRecordID).
RecordsAreIndexed ==
    /\ DOMAIN records = {recordOf[cert] : cert \in DOMAIN recordOf}
    /\ \A cert \in DOMAIN recordOf : records[recordOf[cert]].cert = cert
    /\ Cardinality(DOMAIN records) = recordCount

\* A record is immutable but for what is appended: its certificate, the
\* documents it was accepted with, its first holder and every earlier event
\* stay what they were (read, change and write back of AddDocumentToRecord and
\* RecordCustodyTransfer).
RecordsOnlyGrow ==
    [][\A id \in DOMAIN records :
          /\ id \in DOMAIN records'
          /\ records'[id].cert = records[id].cert
          /\ IsPrefix(records[id].documents, records'[id].documents)
          /\ IsPrefix(records[id].custody, records'[id].custody)]_provenanceVars

=============================================================================
