------------------------------- MODULE MCIngest -------------------------------
(* The ways a message comes in: the capture of what a provider delivers, and *)
(* the poller of an IMAP mailbox, checked in one run.  They share no state:  *)
(* a behaviour moves one of them, the focus.                                 *)
EXTENDS MCCapture, ImapPoller

VARIABLE focus

captureAndPoller == <<focus, captureVars, imapVars>>

IngestInit ==
  /\ focus \in {"capture", "imap"}
  /\ Init
  /\ ImapInit /\ (focus = "imap" \/ uidNext = 1)

Polled(A) == focus = "imap" /\ A /\ UNCHANGED <<focus, captureVars>>

IngestNext ==
  \/ focus = "capture" /\ Next /\ UNCHANGED <<focus, imapVars>>
  \/ Polled(ImapNext)

IngestSpec ==
  /\ IngestInit /\ [][IngestNext]_captureAndPoller
  /\ \A p \in Polls : WF_captureAndPoller(Polled(PollStep(p)))

\* Both keep their types.
TypesOK == TypeOK /\ ImapTypeOK
===============================================================================
