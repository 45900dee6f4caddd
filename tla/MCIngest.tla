------------------------------ MODULE MCIngest ------------------------------
(* Two deliveries and one content for each outcome of the checks.           *)
EXTENDS Ingest

Good == [body |-> "json", key |-> "right", valid |-> TRUE,
         signature |-> "right", fits |-> TRUE]

Outcomes ==
    {Good,
     [Good EXCEPT !.body = "text"],
     [Good EXCEPT !.body = "bytes"],
     [Good EXCEPT !.key = "wrong"],
     [Good EXCEPT !.key = "strange"],
     [Good EXCEPT !.valid = FALSE],
     [Good EXCEPT !.signature = "wrong"],
     [Good EXCEPT !.signature = "strange"],
     [Good EXCEPT !.fits = FALSE]}
=============================================================================
