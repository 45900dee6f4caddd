------------------------------- MODULE Signing -------------------------------
(***************************************************************************)
(* The signature of an event on its way from the emitter through POST         *)
(* /events into a row, and from the row to whoever re-verifies it offline:     *)
(* src/security.py, the schemas of src/schemas.py that rewrite what they        *)
(* parse, and the columns of src/models.py that keep less than was signed.      *)
(*                                                                         *)
(* An event is what its fields say and the form they say it in, "own" being  *)
(* the form the service itself would print: a UUID in lower case with dashes, *)
(* a time as isoformat() prints it (not with "Z"), defaults written out, hex    *)
(* digests in lower case, an address as INET prints it.  Numbers have two such    *)
(* fields: "notation" is how one is written, "own" as json.dumps writes it (not   *)
(* 1.50, not 1E5); "number" is whether what json.dumps writes is what an integer    *)
(* field, or JSONB, prints of it (not 12.0 in an integer field, not 1e+16 in        *)
(* details).  HMAC and SHA-256 are taken to be injective.                           *)
(***************************************************************************)
EXTENDS Naturals, FiniteSets

CONSTANTS
    Values,    \* what a field can say
    Docs,      \* the events that are submitted
    Secrets,   \* values of LOGGER_HMAC_SECRET
    Unset,     \* the one that is no secret: the variable is empty
    MaxRows,   \* requests are made until so many rows are stored
    Nothing    \* no request

Types == {"ops_event", "conversation_capture", "audit_event"}

Forms == {"own", "other"}

(* The offset of a time: none, +00:00, another one.                         *)
Zones == {"naive", "utc", "east"}

Documents ==
    {doc \in [type : Types,
              id : Values, idForm : Forms,
              time : Values, timeForm : Forms, zone : Zones,
              body : Values, text : {"ascii", "wide"},
              defaults : Forms, hex : Forms, ip : Forms,
              notation : Forms, number : Forms] :
        /\ doc.type # "conversation_capture" => doc.hex = "own"
        /\ doc.type # "audit_event" => doc.ip = "own"}

ASSUME SigningAssumption == Docs \subseteq Documents /\ MaxRows \in Nat

VARIABLES
    emitterSecret, receiverSecret,   \* LOGGER_HMAC_SECRET on either side
    wire,    \* the request under way, with its answer once it has one
    rows     \* the stored rows

vars == <<emitterSecret, receiverSecret, wire, rows>>

-----------------------------------------------------------------------------
(* security.py: the canonical string and its signature.                     *)

(* Mutant of Canonical: the time is left out of the canonical string.       *)
CanonicalTimeless(doc, ensure_ascii) ==
    [doc |-> [doc EXCEPT !.time = 0],
     escaped |-> IF ensure_ascii = "True" /\ doc.text = "wide" THEN "yes" ELSE "no"]

(* json.dumps escapes what is not ASCII unless told not to.                 *)
Canonical(doc, ensure_ascii) ==
    [doc |-> doc,
     escaped |-> IF ensure_ascii = "True" /\ doc.text = "wide" THEN "yes" ELSE "no"]

Signature(secret, doc, ensure_ascii) ==
    [secret |-> secret, string |-> Canonical(doc, ensure_ascii)]

-----------------------------------------------------------------------------
(* schemas.py: what model_dump(mode="json") prints of a parsed event.       *)

Envelope(doc) == [doc EXCEPT !.idForm = "own", !.timeForm = "own"]

(* Mutant of OpsEventPayload: only what was sent is dumped.                 *)
OpsEventPayloadUnset(doc) == [doc EXCEPT !.notation = "own"]

(* A number is read as one of Python's, and written as json.dumps does.     *)
OpsEventPayload(doc) == [doc EXCEPT !.defaults = "own", !.notation = "own"]

(* The digests are lowered, and the counts are integers.                    *)
ConversationCapturePayload(doc) ==
    [doc EXCEPT !.defaults = "own", !.hex = "own",
                !.notation = "own", !.number = "own"]

AuditEventPayload(doc) == [doc EXCEPT !.defaults = "own", !.notation = "own"]

(* Variant by event_type, the discriminator.                                *)
Parsed(doc) ==
    Envelope(CASE doc.type = "ops_event"            -> OpsEventPayload(doc)
               [] doc.type = "conversation_capture" -> ConversationCapturePayload(doc)
               [] doc.type = "audit_event"          -> AuditEventPayload(doc))

-----------------------------------------------------------------------------
(* models.py: what the columns keep.  A TIMESTAMPTZ is an instant, printed  *)
(* in the zone of the session that reads it.                                *)

EnvelopeColumns(doc) == [doc EXCEPT !.zone = "utc"]

OpsEvent(doc) == [doc EXCEPT !.defaults = "own", !.number = "own"]

ConversationCapture(doc) == [doc EXCEPT !.defaults = "own"]

AuditEvent(doc) == [doc EXCEPT !.defaults = "own", !.number = "own", !.ip = "own"]

Columns(doc) ==
    EnvelopeColumns(CASE doc.type = "ops_event"            -> OpsEvent(doc)
                      [] doc.type = "conversation_capture" -> ConversationCapture(doc)
                      [] doc.type = "audit_event"          -> AuditEvent(doc))

(* EVENT_DISPATCH, with the default windows of the retention classes.       *)
Table(type) ==
    CASE type = "ops_event"            -> "ops_events"
      [] type = "conversation_capture" -> "conversation_captures"
      [] type = "audit_event"          -> "audit_events"

(* A row: its table, its columns, hmac_signature among them; and whether    *)
(* the columns are still what was written.                                  *)
Row(doc, signature) ==
    [table |-> Table(doc.type), columns |-> Columns(doc),
     signature |-> signature, intact |-> "yes"]

-----------------------------------------------------------------------------
(* Re-verification: the canonical string of the columns, read in a zone.    *)

ReadBack(row, zone) == [row.columns EXCEPT !.zone = zone]

Verifies(row, zone, secret) ==
    row.signature = Signature(secret, ReadBack(row, zone), "False")

-----------------------------------------------------------------------------
Init ==
    /\ emitterSecret \in Secrets /\ receiverSecret \in Secrets
    /\ wire = Nothing
    /\ rows = {}

(* The emitter signs the payload it sends, or what the schemas make of it,  *)
(* and escapes or does not.                                                 *)
Emit ==
    /\ wire = Nothing /\ Cardinality(rows) < MaxRows
    /\ \E doc \in Docs, style \in {"asSent", "asParsed"},
          ensure_ascii \in {"True", "False"} :
        wire' = [doc |-> doc, style |-> style, ensure_ascii |-> ensure_ascii,
                 signature |-> Signature(emitterSecret,
                                         IF style = "asSent" THEN doc ELSE Parsed(doc),
                                         ensure_ascii),
                 under |-> Nothing, answer |-> 0]
    /\ UNCHANGED <<emitterSecret, receiverSecret, rows>>

(* Mutant of Accepted: the signature is compared with the event as sent.    *)
AcceptedAsSent(request) ==
    /\ receiverSecret # Unset
    /\ request.signature = Signature(receiverSecret, request.doc, "False")

(* Mutant of Accepted: an empty secret is a key like any other.             *)
AcceptedUnconfigured(request) ==
    request.signature = Signature(receiverSecret, Parsed(request.doc), "False")

(* verify_signature, over what the schemas made of the request; without a   *)
(* secret it accepts nothing.                                               *)
Accepted(request) ==
    /\ receiverSecret # Unset
    /\ request.signature = Signature(receiverSecret, Parsed(request.doc), "False")

(* create_event.                                                            *)
Receive ==
    /\ wire # Nothing /\ wire.answer = 0
    /\ \/ /\ Accepted(wire)
          /\ rows' = rows \cup {Row(Parsed(wire.doc), wire.signature)}
          /\ wire' = [wire EXCEPT !.answer = 201, !.under = receiverSecret]
       \/ /\ ~Accepted(wire)
          /\ wire' = [wire EXCEPT !.answer = 401, !.under = receiverSecret]
          /\ UNCHANGED rows
    /\ UNCHANGED <<emitterSecret, receiverSecret>>

Answered ==
    /\ wire # Nothing /\ wire.answer # 0
    /\ wire' = Nothing
    /\ UNCHANGED <<emitterSecret, receiverSecret, rows>>

(* One side is recreated with another secret.                               *)
Rotate ==
    /\ \E secret \in Secrets :
        \/ emitterSecret' = secret /\ UNCHANGED receiverSecret
        \/ receiverSecret' = secret /\ UNCHANGED emitterSecret
    /\ UNCHANGED <<wire, rows>>

(* The storage loses what a signed column said.                             *)
Decay ==
    /\ \E row \in rows, v \in Values :
        /\ row.intact = "yes"
        /\ \E columns \in {[row.columns EXCEPT !.id = v],
                           [row.columns EXCEPT !.time = v],
                           [row.columns EXCEPT !.body = v]} :
            /\ columns # row.columns
            /\ rows' = (rows \ {row})
                        \cup {[row EXCEPT !.columns = columns, !.intact = "no"]}
    /\ UNCHANGED <<emitterSecret, receiverSecret, wire>>

Next == Emit \/ Receive \/ Answered \/ Rotate \/ Decay

Spec == Init /\ [][Next]_vars

-----------------------------------------------------------------------------
(* Properties.                                                              *)

(* The form the receiver re-derives the signature from.                     *)
OwnForm(doc) ==
    /\ doc.idForm = "own" /\ doc.timeForm = "own"
    /\ doc.defaults = "own" /\ doc.notation = "own"
    /\ doc.type = "conversation_capture" => doc.hex = "own" /\ doc.number = "own"

(* The receiver refuses everything while it has no secret, and a signature  *)
(* made with another secret, one over a canonical string that escapes what  *)
(* is not ASCII, and one over an event sent in a form that is not its own;  *)
(* and no other (security.py:160, 227-239, api.py:276-288).                 *)
RefusedExactly ==
    wire # Nothing /\ wire.answer # 0 =>
        (wire.answer = 401 <=>
            \/ wire.under = Unset
            \/ wire.signature.secret # wire.under
            \/ wire.ensure_ascii = "True" /\ wire.doc.text = "wide"
            \/ wire.style = "asSent" /\ ~OwnForm(wire.doc))

(* The fields that the columns keep as they were signed.                    *)
Kept(doc) == doc.zone = "utc" /\ doc.number = "own" /\ doc.ip = "own"

(* Offline re-verification of an intact row (datasheet 6.2), in a session   *)
(* in UTC: it succeeds under the secret of the time of its ingestion, not   *)
(* under a later one, and only if the columns keep all that was signed: not *)
(* for times signed with another offset or without one, nor for addresses   *)
(* and numbers that PostgreSQL prints in another form.                      *)
ReverifiedExactly ==
    \A row \in rows, secret \in Secrets :
        row.intact = "yes" =>
            (Verifies(row, "utc", secret) <=>
                /\ row.signature.secret = secret
                /\ Kept(row.signature.string.doc))

(* A row whose signed columns changed never re-verifies, whatever zone it   *)
(* is read in and whatever secret is tried.                                 *)
DecayShows ==
    \A row \in rows, zone \in Zones, secret \in Secrets :
        row.intact = "no" => ~Verifies(row, zone, secret)

(* Every stored event was signed with a secret, one that was configured,    *)
(* and in the receiver's form; it is in the table of its type, and until    *)
(* the storage fails its columns are those of what was signed.              *)
SignedAsParsed ==
    \A row \in rows :
        LET doc == row.signature.string.doc IN
        /\ row.signature \in [secret : Secrets \ {Unset},
                             string : [doc : Documents, escaped : {"no"}]]
        /\ OwnForm(doc)
        /\ row.table = Table(doc.type)
        /\ row.intact \in {"yes", "no"}
        /\ row.intact = "yes" => row.columns = Columns(doc)
=============================================================================
