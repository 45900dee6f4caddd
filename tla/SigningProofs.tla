---------------------------- MODULE SigningProofs ----------------------------
(***************************************************************************)
(* Proofs about Signing, for any values, events, secrets and number of rows. *)
(***************************************************************************)
EXTENDS Signing, TLAPS

-----------------------------------------------------------------------------
(* Lemmas about the rewriting of an event.                                  *)

(* Parsing prints the form that is the service's own, and changes only the  *)
(* form.                                                                    *)
LEMMA ParsedFacts ==
    ASSUME NEW doc \in Documents
    PROVE  /\ Parsed(doc) \in Documents
           /\ OwnForm(Parsed(doc))
           /\ Parsed(doc).type = doc.type /\ Parsed(doc).text = doc.text
           /\ Parsed(doc) = doc <=> OwnForm(doc)
<1> DEFINE ops  == [doc EXCEPT !.defaults = "own", !.notation = "own",
                               !.idForm = "own", !.timeForm = "own"]
           conv == [doc EXCEPT !.defaults = "own", !.hex = "own",
                               !.notation = "own", !.number = "own",
                               !.idForm = "own", !.timeForm = "own"]
<1>1. CASE doc.type \in {"ops_event", "audit_event"}
  <2>1. Parsed(doc) = ops
    BY <1>1 DEF Parsed, Envelope, OpsEventPayload, AuditEventPayload, Documents
  <2>2. ops \in Documents /\ OwnForm(ops)
    BY <1>1 DEF Documents, Forms, Types, OwnForm
  <2>3. ops = doc <=> OwnForm(doc)
    BY <1>1 DEF Documents, Forms, Types, OwnForm
  <2>. QED  BY <2>1, <2>2, <2>3 DEF Documents
<1>2. CASE doc.type = "conversation_capture"
  <2>1. Parsed(doc) = conv
    BY <1>2 DEF Parsed, Envelope, ConversationCapturePayload, Documents
  <2>2. conv \in Documents /\ OwnForm(conv)
    BY <1>2 DEF Documents, Forms, Types, OwnForm
  <2>3. conv = doc <=> OwnForm(doc)
    BY <1>2 DEF Documents, Forms, Types, OwnForm
  <2>. QED  BY <2>1, <2>2, <2>3 DEF Documents
<1>. QED  BY <1>1, <1>2 DEF Documents, Types

(* The columns say what was signed, and read in UTC they are what was       *)
(* signed exactly if its zone, numbers and address were in their form.      *)
LEMMA ColumnFacts ==
    ASSUME NEW doc \in Documents, OwnForm(doc)
    PROVE  /\ Columns(doc) \in Documents
           /\ Columns(doc).id = doc.id /\ Columns(doc).time = doc.time
           /\ Columns(doc).body = doc.body
           /\ [Columns(doc) EXCEPT !.zone = "utc"] = doc <=> Kept(doc)
<1>1. CASE doc.type = "ops_event"
  <2>1. Columns(doc) = [doc EXCEPT !.defaults = "own", !.number = "own", !.zone = "utc"]
    BY <1>1 DEF Columns, EnvelopeColumns, OpsEvent, Documents
  <2>2. Columns(doc) \in Documents
    BY <1>1, <2>1 DEF Documents, Forms, Types, Zones
  <2>3. [Columns(doc) EXCEPT !.zone = "utc"] = Columns(doc)
    BY <2>1, <2>2 DEF Documents
  <2>4. [doc EXCEPT !.defaults = "own", !.number = "own", !.zone = "utc"] = doc <=> Kept(doc)
    BY <1>1 DEF Documents, Forms, Types, Zones, OwnForm, Kept
  <2>. QED  BY <2>1, <2>2, <2>3, <2>4 DEF Documents
<1>2. CASE doc.type = "conversation_capture"
  <2>1. Columns(doc) = [doc EXCEPT !.defaults = "own", !.zone = "utc"]
    BY <1>2 DEF Columns, EnvelopeColumns, ConversationCapture, Documents
  <2>2. Columns(doc) \in Documents
    BY <1>2, <2>1 DEF Documents, Forms, Types, Zones
  <2>3. [Columns(doc) EXCEPT !.zone = "utc"] = Columns(doc)
    BY <2>1, <2>2 DEF Documents
  <2>4. [doc EXCEPT !.defaults = "own", !.zone = "utc"] = doc <=> Kept(doc)
    BY <1>2 DEF Documents, Forms, Types, Zones, OwnForm, Kept
  <2>. QED  BY <2>1, <2>2, <2>3, <2>4 DEF Documents
<1>3. CASE doc.type = "audit_event"
  <2>1. Columns(doc) = [doc EXCEPT !.defaults = "own", !.number = "own",
                                   !.ip = "own", !.zone = "utc"]
    BY <1>3 DEF Columns, EnvelopeColumns, AuditEvent, Documents
  <2>2. Columns(doc) \in Documents
    BY <1>3, <2>1 DEF Documents, Forms, Types, Zones
  <2>3. [Columns(doc) EXCEPT !.zone = "utc"] = Columns(doc)
    BY <2>1, <2>2 DEF Documents
  <2>4. [doc EXCEPT !.defaults = "own", !.number = "own",
                       !.ip = "own", !.zone = "utc"] = doc <=> Kept(doc)
    BY <1>3 DEF Documents, Forms, Types, Zones, OwnForm, Kept
  <2>. QED  BY <2>1, <2>2, <2>3, <2>4 DEF Documents
<1>. QED  BY <1>1, <1>2, <1>3 DEF Documents, Types

(* Signatures are equal exactly if their secrets, their events and their    *)
(* escaping are.                                                            *)
LEMMA Injective ==
    ASSUME NEW s, NEW t, NEW d, NEW e, NEW a, NEW b
    PROVE  Signature(s, d, a) = Signature(t, e, b) <=>
              /\ s = t /\ d = e
              /\ Canonical(d, a).escaped = Canonical(e, b).escaped
BY DEF Signature, Canonical
-----------------------------------------------------------------------------
(* The inductive invariant.                                                 *)

Signatures ==
    [secret : Secrets, string : [doc : Documents, escaped : {"yes", "no"}]]

Statuses == {0, 201, 401}

Requests ==
    [doc : Documents, style : {"asSent", "asParsed"},
     ensure_ascii : {"True", "False"}, signature : Signatures,
     under : Secrets \cup {Nothing}, answer : Statuses]

(* A request carries the signature of its style, and its answer says how    *)
(* that compared under the secret it was answered with.                     *)
WireSound ==
    wire # Nothing =>
        /\ wire \in Requests
        /\ wire.signature =
              Signature(wire.signature.secret,
                        IF wire.style = "asSent" THEN wire.doc ELSE Parsed(wire.doc),
                        wire.ensure_ascii)
        /\ wire.answer # 0 =>
              (wire.answer = 201 <=>
                  /\ wire.under # Unset
                  /\ wire.signature = Signature(wire.under, Parsed(wire.doc), "False"))

(* The columns of a row that is not intact differ from what was signed.     *)
DecayMarks ==
    \A row \in rows :
        row.intact = "no" =>
            \/ row.columns.id   # row.signature.string.doc.id
            \/ row.columns.time # row.signature.string.doc.time
            \/ row.columns.body # row.signature.string.doc.body

RowsTyped ==
    rows \subseteq [table : {Table(type) : type \in Types}, columns : Documents,
                    signature : Signatures, intact : {"yes", "no"}]

SigningInv ==
    /\ emitterSecret \in Secrets /\ receiverSecret \in Secrets
    /\ WireSound
    /\ SignedAsParsed
    /\ DecayMarks
    /\ RowsTyped

(* What is signed is an event, escaped or not.                              *)
LEMMA SignatureType ==
    ASSUME NEW secret \in Secrets, NEW doc \in Documents,
           NEW ensure_ascii \in {"True", "False"}
    PROVE  Signature(secret, doc, ensure_ascii) \in Signatures
BY DEF Signature, Canonical, Signatures

(* No request and no rows: there is nothing to be wrong.                   *)
LEMMA InitSound == Init => SigningInv
BY DEF Init, SigningInv, WireSound, SignedAsParsed, DecayMarks, RowsTyped

(* An emitter's request is sound, whatever it signs.                        *)
LEMMA EmitSound == SigningInv /\ Emit => SigningInv'
<1> SUFFICES ASSUME SigningInv, Emit PROVE SigningInv'
  OBVIOUS
<1> USE SigningAssumption
<1>1. PICK doc \in Docs, style \in {"asSent", "asParsed"},
           ensure_ascii \in {"True", "False"} :
        wire' = [doc |-> doc, style |-> style, ensure_ascii |-> ensure_ascii,
                 signature |-> Signature(emitterSecret,
                                         IF style = "asSent" THEN doc ELSE Parsed(doc),
                                         ensure_ascii),
                 under |-> Nothing, answer |-> 0]
  BY DEF Emit
<1> DEFINE signed == IF style = "asSent" THEN doc ELSE Parsed(doc)
<1>2. doc \in Documents /\ signed \in Documents
  BY ParsedFacts
<1>3. Signature(emitterSecret, signed, ensure_ascii) \in Signatures
  BY <1>2, SignatureType DEF SigningInv
<1>4. Signature(emitterSecret, signed, ensure_ascii).secret = emitterSecret
  BY DEF Signature
<1>5. WireSound'
  BY <1>1, <1>2, <1>3, <1>4 DEF WireSound, Requests, Statuses
<1>6. UNCHANGED <<emitterSecret, receiverSecret, rows>>
  BY DEF Emit
<1>. QED
  BY <1>5, <1>6 DEF SigningInv, SignedAsParsed, DecayMarks, RowsTyped

(* The receiver answers as the comparison says, and stores what it accepts. *)
LEMMA ReceiveSound == SigningInv /\ Receive => SigningInv'
<1> SUFFICES ASSUME SigningInv, Receive PROVE SigningInv'
  OBVIOUS
<1> DEFINE stored == Parsed(wire.doc)
<1>1. /\ wire # Nothing /\ receiverSecret \in Secrets /\ wire.doc \in Documents
      /\ wire \in Requests
  BY DEF Receive, SigningInv, WireSound, Requests
<1>2. stored \in Documents /\ OwnForm(stored)
  BY <1>1, ParsedFacts
<1>3. UNCHANGED <<emitterSecret, receiverSecret>>
  BY DEF Receive
<1>4. CASE /\ Accepted(wire)
           /\ rows' = rows \cup {Row(stored, wire.signature)}
           /\ wire' = [wire EXCEPT !.answer = 201, !.under = receiverSecret]
  <2> DEFINE new == Row(stored, wire.signature)
  <2>1. receiverSecret # Unset /\ wire.signature = Signature(receiverSecret, stored, "False")
    BY <1>4 DEF Accepted
  <2>2. /\ wire.signature.string.doc = stored
        /\ wire.signature \in [secret : Secrets \ {Unset},
                              string : [doc : Documents, escaped : {"no"}]]
    BY <1>1, <1>2, <2>1 DEF Signature, Signatures, Canonical, Requests
  <2>3. WireSound'
    <3>1. /\ wire' \in Requests
          /\ wire'.doc = wire.doc /\ wire'.style = wire.style
          /\ wire'.ensure_ascii = wire.ensure_ascii
          /\ wire'.signature = wire.signature
          /\ wire'.under = receiverSecret /\ wire'.answer = 201
      <4>1. wire' = [wire EXCEPT !.answer = 201, !.under = receiverSecret]
        BY <1>4
      <4>2. 201 \in Statuses /\ receiverSecret \in Secrets \cup {Nothing}
        BY <1>1 DEF Statuses
      <4>3. wire' \in Requests
        BY <1>1, <4>1, <4>2, Zenon DEF Requests
      <4>. QED  BY <1>1, <4>1, <4>3 DEF Requests
    <3>. QED  BY <1>1, <2>1, <3>1 DEF WireSound, SigningInv
  <2>4. SignedAsParsed'
    BY <1>2, <1>4, <2>2 DEF SignedAsParsed, SigningInv, Row
  <2>5. DecayMarks'
    BY <1>4 DEF DecayMarks, SigningInv, Row
  <2>6. RowsTyped'
    <3>1. new \in [table : {Table(type) : type \in Types}, columns : Documents,
                   signature : Signatures, intact : {"yes", "no"}]
      BY <1>1, <1>2, ColumnFacts DEF Row, Documents, Requests
    <3>. QED  BY <1>4, <3>1 DEF RowsTyped, SigningInv
  <2>. QED  BY <1>3, <2>3, <2>4, <2>5, <2>6 DEF SigningInv
<1>5. CASE /\ ~Accepted(wire)
           /\ wire' = [wire EXCEPT !.answer = 401, !.under = receiverSecret]
           /\ UNCHANGED rows
  <2>1. ~(/\ receiverSecret # Unset
          /\ wire.signature = Signature(receiverSecret, stored, "False"))
    BY <1>5 DEF Accepted
  <2>2. WireSound'
    <3>1. /\ wire' \in Requests
          /\ wire'.doc = wire.doc /\ wire'.style = wire.style
          /\ wire'.ensure_ascii = wire.ensure_ascii
          /\ wire'.signature = wire.signature
          /\ wire'.under = receiverSecret /\ wire'.answer = 401
      <4>1. wire' = [wire EXCEPT !.answer = 401, !.under = receiverSecret]
        BY <1>5
      <4>2. 401 \in Statuses /\ receiverSecret \in Secrets \cup {Nothing}
        BY <1>1 DEF Statuses
      <4>3. wire' \in Requests
        BY <1>1, <4>1, <4>2, Zenon DEF Requests
      <4>. QED  BY <1>1, <4>1, <4>3 DEF Requests
    <3>. QED  BY <1>1, <2>1, <3>1 DEF WireSound, SigningInv
  <2>. QED
    BY <1>3, <1>5, <2>2 DEF SigningInv, SignedAsParsed, DecayMarks, RowsTyped
<1>. QED  BY <1>4, <1>5 DEF Receive

(* A row that loses what a signed column said is marked by it.              *)
LEMMA DecaySound == SigningInv /\ Decay => SigningInv'
<1> SUFFICES ASSUME SigningInv, Decay PROVE SigningInv'
  OBVIOUS
<1>1. PICK row \in rows, v \in Values :
        /\ row.intact = "yes"
        /\ \E columns \in {[row.columns EXCEPT !.id = v],
                           [row.columns EXCEPT !.time = v],
                           [row.columns EXCEPT !.body = v]} :
            /\ columns # row.columns
            /\ rows' = (rows \ {row})
                        \cup {[row EXCEPT !.columns = columns, !.intact = "no"]}
  BY DEF Decay
<1>2. PICK columns \in {[row.columns EXCEPT !.id = v],
                        [row.columns EXCEPT !.time = v],
                        [row.columns EXCEPT !.body = v]} :
            /\ columns # row.columns
            /\ rows' = (rows \ {row})
                        \cup {[row EXCEPT !.columns = columns, !.intact = "no"]}
  BY <1>1
<1> DEFINE doc == row.signature.string.doc
           new == [row EXCEPT !.columns = columns, !.intact = "no"]
<1>3. /\ doc \in Documents /\ OwnForm(doc)
      /\ row.columns = Columns(doc) /\ row.columns \in Documents
      /\ row.columns.id = doc.id /\ row.columns.time = doc.time
      /\ row.columns.body = doc.body
  BY <1>1, ColumnFacts DEF SigningInv, SignedAsParsed
<1>4. \/ columns.id # doc.id
      \/ columns.time # doc.time
      \/ columns.body # doc.body
  BY <1>2, <1>3 DEF Documents
<1>5. /\ new \in [table : {Table(type) : type \in Types}, columns : Documents,
                  signature : Signatures, intact : {"yes", "no"}]
      /\ new.table = row.table /\ new.columns = columns
      /\ new.signature = row.signature /\ new.intact = "no"
  <2>1. row \in [table : {Table(type) : type \in Types}, columns : Documents,
                 signature : Signatures, intact : {"yes", "no"}]
    BY DEF SigningInv, RowsTyped
  <2>2. columns \in Documents
    BY <1>2, <1>3 DEF Documents
  <2>3. new \in [table : {Table(type) : type \in Types}, columns : Documents,
                 signature : Signatures, intact : {"yes", "no"}]
    BY <2>1, <2>2, Zenon
  <2>. QED  BY <2>1, <2>3
<1>6. SignedAsParsed'
  BY <1>2, <1>5 DEF SigningInv, SignedAsParsed
<1>7. DecayMarks'
  BY <1>2, <1>4, <1>5 DEF SigningInv, DecayMarks
<1>8. RowsTyped'
  BY <1>2, <1>5 DEF SigningInv, RowsTyped
<1>9. UNCHANGED <<emitterSecret, receiverSecret, wire>>
  BY DEF Decay
<1>. QED  BY <1>6, <1>7, <1>8, <1>9 DEF SigningInv, WireSound

(* The invariant holds throughout.                                          *)
THEOREM SigningSound == Spec => []SigningInv
<1>1. SigningInv /\ [Next]_vars => SigningInv'
  <2> SUFFICES ASSUME SigningInv, [Next]_vars PROVE SigningInv'
    OBVIOUS
  <2>1. CASE Emit
    BY <2>1, EmitSound
  <2>2. CASE Receive
    BY <2>2, ReceiveSound
  <2>3. CASE Answered
    BY <2>3 DEF Answered, SigningInv, WireSound, SignedAsParsed, DecayMarks, RowsTyped
  <2>4. CASE Rotate
    BY <2>4 DEF Rotate, SigningInv, WireSound, SignedAsParsed, DecayMarks, RowsTyped
  <2>5. CASE Decay
    BY <2>5, DecaySound
  <2>6. CASE UNCHANGED vars
    BY <2>6 DEF vars, SigningInv, WireSound, SignedAsParsed, DecayMarks, RowsTyped
  <2>. QED  BY <2>1, <2>2, <2>3, <2>4, <2>5, <2>6 DEF Next
<1>. QED  BY <1>1, InitSound, PTL DEF Spec

-----------------------------------------------------------------------------
(* The theorems.                                                            *)

(* Every stored event was signed with a configured secret and in the        *)
(* receiver's form, whatever was sent (security.py, schemas.py).            *)
THEOREM SignedCorrect == Spec => []SignedAsParsed
<1>1. SigningInv => SignedAsParsed
  BY DEF SigningInv
<1>. QED  BY <1>1, SigningSound, PTL

(* A signature is refused for the four reasons RefusedExactly lists and    *)
(* for no other, whatever the events and the secrets are.                   *)
THEOREM RefusedCorrect == Spec => []RefusedExactly
<1>1. SigningInv => RefusedExactly
  <2> SUFFICES ASSUME SigningInv, wire # Nothing, wire.answer # 0
               PROVE  wire.answer = 401 <=>
                        \/ wire.under = Unset
                        \/ wire.signature.secret # wire.under
                        \/ wire.ensure_ascii = "True" /\ wire.doc.text = "wide"
                        \/ wire.style = "asSent" /\ ~OwnForm(wire.doc)
    BY DEF RefusedExactly
  <2> DEFINE signed == IF wire.style = "asSent" THEN wire.doc ELSE Parsed(wire.doc)
  <2>1. /\ wire.doc \in Documents /\ wire.style \in {"asSent", "asParsed"}
        /\ wire.ensure_ascii \in {"True", "False"}
        /\ wire.answer = 401 <=>
              ~(/\ wire.under # Unset
                /\ wire.signature = Signature(wire.under, Parsed(wire.doc), "False"))
        /\ wire.signature = Signature(wire.signature.secret, signed, wire.ensure_ascii)
    BY DEF SigningInv, WireSound, Requests, Statuses
  <2>2. /\ signed.text = wire.doc.text
        /\ signed = Parsed(wire.doc) <=>
              wire.style = "asParsed" \/ OwnForm(wire.doc)
    BY <2>1, ParsedFacts
  <2>3. Canonical(signed, wire.ensure_ascii).escaped
            = Canonical(Parsed(wire.doc), "False").escaped
          <=> ~(wire.ensure_ascii = "True" /\ wire.doc.text = "wide")
    BY <2>2 DEF Canonical
  <2>4. wire.signature = Signature(wire.under, Parsed(wire.doc), "False") <=>
            /\ wire.signature.secret = wire.under
            /\ signed = Parsed(wire.doc)
            /\ Canonical(signed, wire.ensure_ascii).escaped
                  = Canonical(Parsed(wire.doc), "False").escaped
    BY <2>1, Injective
  <2>. QED  BY <2>1, <2>2, <2>3, <2>4
<1>. QED  BY <1>1, SigningSound, PTL

(* An intact row re-verifies offline exactly if its columns kept what was   *)
(* signed and the secret is still that of its ingestion (datasheet 6.2).    *)
THEOREM ReverifiedCorrect == Spec => []ReverifiedExactly
<1>1. SigningInv => ReverifiedExactly
  <2> SUFFICES ASSUME SigningInv, NEW row \in rows, NEW secret \in Secrets,
                      row.intact = "yes"
               PROVE  Verifies(row, "utc", secret) <=>
                        /\ row.signature.secret = secret
                        /\ Kept(row.signature.string.doc)
    BY DEF ReverifiedExactly
  <2> DEFINE doc  == row.signature.string.doc
             read == [Columns(doc) EXCEPT !.zone = "utc"]
  <2>1. /\ doc \in Documents /\ OwnForm(doc)
        /\ row.columns = Columns(doc)
        /\ row.signature = [secret |-> row.signature.secret,
                            string |-> [doc |-> doc, escaped |-> "no"]]
    BY DEF SigningInv, SignedAsParsed
  <2>2. read = doc <=> Kept(doc)
    BY <2>1, ColumnFacts
  <2>3. Signature(secret, read, "False")
          = [secret |-> secret, string |-> [doc |-> read, escaped |-> "no"]]
    BY DEF Signature, Canonical
  <2>4. Verifies(row, "utc", secret) <=> row.signature.secret = secret /\ read = doc
    BY <2>1, <2>3 DEF Verifies, ReadBack
  <2>. QED  BY <2>2, <2>4
<1>. QED  BY <1>1, SigningSound, PTL

(* A changed row re-verifies in no zone and under no secret.                *)
THEOREM DecayCorrect == Spec => []DecayShows
<1>1. SigningInv => DecayShows
  <2> SUFFICES ASSUME SigningInv, NEW row \in rows, NEW zone \in Zones,
                      NEW secret \in Secrets, row.intact = "no",
                      Verifies(row, zone, secret)
               PROVE  FALSE
    BY DEF DecayShows
  <2> DEFINE read == [row.columns EXCEPT !.zone = zone]
  <2>1. row.signature.string.doc = read
    BY DEF Verifies, ReadBack, Signature, Canonical
  <2>2. /\ read.id = row.columns.id
        /\ read.time = row.columns.time
        /\ read.body = row.columns.body
    OBVIOUS
  <2>. QED  BY <2>1, <2>2 DEF SigningInv, DecayMarks
<1>. QED  BY <1>1, SigningSound, PTL
=============================================================================
