--------------------------- MODULE PeerConnection ---------------------------
(***************************************************************************)
(* The program of 10_rtc_peer_connection/main.cc, as a user of             *)
(* ScopedRefptr: main creates the factory, the peer connection, a track    *)
(* and the observer of the offer, and waits for ever; the signaling thread *)
(* calls the observers, one of which sets the local description.  What the *)
(* library keeps are pointers of its own.                                  *)
(*                                                                         *)
(* The program has one script for every way through it: the early returns, *)
(* the offer that fails and the offer that is set.  A unique_ptr, or a raw *)
(* pointer that owns, is a pointer that is not copied.                     *)
(***************************************************************************)
EXTENDS ScopedRefptr, TLC

CONSTANTS
  main, signaling,                        \* threads
  factory, pcObserver, connection, track, \* objects
  sessionObserver, description, setObserver

PeerObjects == {factory, pcObserver, connection, track, sessionObserver,
                description, setObserver}

(* Main's variables, and the library's: the sender's reference to the      *)
(* track, those of the operations to their observers, and the description. *)
PeerPointers == {"peer_connection_factory", "pc_observer", "ret", "pc",
                 "audio_track", "session_observer", "sender", "create_offer",
                 "set_local", "desc", "local_description"}

Make(p, o)    == Op("Create", p, o)
Drop(p)       == Op("Destroy", p, Null)
Calls(o)      == Op("Use", Null, o)
SetEvent(e)   == Op("Set", Null, e)
AwaitEvent(e) == Op("Wait", Null, e)

(* main up to CreatePeerConnectionOrError, and what an early return there  *)
(* destroys.                                                               *)
MakeFactory == <<Make("peer_connection_factory", factory),
                 Make("pc_observer", pcObserver)>>
DropFactory == <<Drop("pc_observer"), Drop("peer_connection_factory")>>

(* Up to AddTrack, and an early return.                                    *)
MakeConnection == <<Make("ret", connection), Op("MoveConstruct", "pc", "ret"),
                    Make("audio_track", track)>>
DropConnection == <<Drop("audio_track"), Drop("pc")>>

(* AddTrack, which makes the signaling thread tell pc_observer that        *)
(* negotiation is needed; the observer; and CreateOffer.                   *)
CreateOffer ==
  <<Op("CopyConstruct", "sender", "audio_track"), SetEvent("track"),
    Make("session_observer", sessionObserver),
    Op("CopyConstruct", "create_offer", "session_observer"),
    Op("HandOver", "create_offer", signaling), SetEvent("offer")>>

(* The signaling thread calls OnFailure.                                   *)
OnFailure ==
  <<AwaitEvent("track"), Calls(pcObserver),
    AwaitEvent("offer"), Calls(sessionObserver), Drop("create_offer")>>

(* OnSuccess: the description passes to SetLocalDescription, and the new   *)
(* observer, whose count is zero, is adopted by the operation, which tells *)
(* it when it is done.                                                     *)
OnSuccess ==
  <<AwaitEvent("track"), Calls(pcObserver),
    AwaitEvent("offer"), Make("desc", description), Calls(sessionObserver),
    Calls(connection), Make("set_local", setObserver),
    Op("MoveConstruct", "local_description", "desc"), Drop("create_offer"),
    Calls(pcObserver), Calls(setObserver), Drop("set_local")>>

(* Main waits for ever with these in scope; the connection keeps the other *)
(* three.                                                                  *)
InScope == {"peer_connection_factory", "pc_observer", "pc", "audio_track",
            "session_observer", "sender", "local_description"}

(* Made by the signaling thread.                                           *)
MadeInCallbacks == {"desc", "set_local", "local_description"}

Scripts(end, calls, callbacks) ==
  [end |-> end, kept |-> InScope,
   first |-> [p \in Pointers |-> IF p \in MadeInCallbacks THEN signaling ELSE main],
   script |-> main :> calls @@ signaling :> callbacks]

Offers ==
  {Scripts("waits", MakeFactory \o MakeConnection \o CreateOffer, callbacks)
     : callbacks \in {OnFailure, OnSuccess}}

(* Mutant of EarlyReturns: pc_observer is a raw pointer, nobody deletes it. *)
EarlyReturnsLeak ==
  {Scripts("returns", MakeFactory \o <<Drop("peer_connection_factory")>>, <<>>)}

(* No factory, no connection, no track.                                    *)
EarlyReturns ==
  {Scripts("returns", calls, <<>>) :
     calls \in {<<>>, MakeFactory \o DropFactory,
                MakeFactory \o MakeConnection \o DropConnection \o DropFactory}}

AnyProgram == [Scripts("any", <<>>, <<>>) EXCEPT !.kept = Pointers]

AllPrograms == Offers \cup EarlyReturns \cup {AnyProgram}
=============================================================================
