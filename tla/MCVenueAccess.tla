---------------------------- MODULE MCVenueAccess ----------------------------
(***************************************************************************)
(* The calls of VenueAccess and the update stream of StreamClient.  A      *)
(* client makes calls or reads a stream: the two share nothing but the     *)
(* client, so a behaviour has one of them.                                 *)
(***************************************************************************)
EXTENDS VenueAccess, StreamClient

\* Payloads that look like headers, and one whose length takes two bytes.
UpdatesChecked == {<<>>, <<2, 0, 0, 1>>}

UndecodableChecked == {<<2>>}

RejectionsChecked == {<<1, 1>>}

CleanChecked == {<<>>, <<0>>}

\* No call was made, and the session is as it was.
Streams ==
    /\ client = "terminal" /\ backend = "remote"
    /\ session.state = "Active" /\ late = {}
    /\ \A c \in Calls : call[c] = Idle

VenueInit == Init /\ ReaderInit

VenueNext ==
    \/ reader = "idle" /\ Next /\ UNCHANGED readerVars
    \/ Streams /\ ReaderNext /\ UNCHANGED vars

\* While the link is open the body arrives, and the command's loop polls it.
VenueSpec ==
    /\ VenueInit /\ [][VenueNext]_<<vars, readerVars>>
    /\ Fairness /\ WF_readerVars(Decode \/ Read)
=============================================================================
