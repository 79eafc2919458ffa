----------------------------- MODULE MergedUrdf -----------------------------
(* prepare_merged_urdf(): the URDF that a node computes gravity from, with   *)
(* the effector's inertia in its end link.  It lands in a directory that all *)
(* of a user's clients share, under a name that depends on the arm and the   *)
(* effector only.  Files are inodes: a path is bound to one, os.replace()    *)
(* binds it to another, and a writer or a reader keeps the one it opened.    *)
EXTENDS Integers, Sequences, FiniteSets

CONSTANTS
    Clients,
    Effectors,      \* mounted effectors, "none" among them
    Inodes,
    Overlapping     \* whether two clients may prepare the same file at once

ASSUME UrdfAssumption ==
    Overlapping \in BOOLEAN /\ IsFiniteSet(Inodes) /\ 0 \notin Inodes

VARIABLES
    base,       \* the inertial blocks of the base URDF's end link
    effectorOf, \* [Clients -> Effectors]
    merged,     \* [Effectors -> Inodes \cup {NoFile}], the merged path
    temp,       \* the same, its .urdf.tmp
    content,    \* [Inodes -> texts]
    phase,      \* [Clients -> ...] the next statement of prepare_merged_urdf()
    handle,     \* [Clients -> Inodes \cup {NoFile}], what client or node has open
    seen        \* [Clients -> texts], what the client's node has parsed

urdfVars == <<base, effectorOf, merged, temp, content, phase, handle, seen>>

NoFile == 0
Nothing == <<"nothing">>
Truncated == <<"truncated">>
----------------------------------------------------------------------------
(* update_link_inertial(): a block that is there is replaced, and one is     *)
(* added where there is none.                                                *)
update_link_inertial(blocks, mass) ==
    IF blocks = <<>> THEN <<mass>> ELSE [blocks EXCEPT ![1] = mass]

merged_text(c) == update_link_inertial(base, effectorOf[c])
Stale == <<"stale">>

(* Earlier releases may have left a file of the same name.                   *)
LeftBehind ==
    {m \in [Effectors -> Inodes \cup {NoFile}] :
        \A e, f \in Effectors : m[e] = m[f] => e = f \/ m[e] = NoFile}

UrdfInit ==
    /\ base \in {<<>>, <<"baked">>}
    /\ effectorOf \in [Clients -> Effectors]
    /\ merged \in LeftBehind
    /\ temp = [e \in Effectors |-> NoFile]
    /\ content = [i \in Inodes |->
                    IF \E e \in Effectors : merged[e] = i THEN Stale ELSE Nothing]
    /\ phase = [c \in Clients |-> "start"]
    /\ handle = [c \in Clients |-> NoFile]
    /\ seen = [c \in Clients |-> Nothing]

Preparing(c) == phase[c] \in {"compare", "open", "write", "replace"}
InUse(i) ==
    \/ \E e \in Effectors : merged[e] = i \/ temp[e] = i
    \/ \E c \in Clients : handle[c] = i
Goto(c, next) == phase' = [phase EXCEPT ![c] = next]

(* The base text and the mass model have been read.  A session connects its  *)
(* arms one after another; other sessions need not wait for it.              *)
Begin(c) ==
    /\ phase[c] = "start"
    /\ Overlapping \/ \A d \in Clients : Preparing(d) => effectorOf[d] # effectorOf[c]
    /\ Goto(c, "compare")
    /\ UNCHANGED <<base, effectorOf, merged, temp, content, handle, seen>>

(* A file that holds the exact text already is used as it is.                *)
ReuseAny(c) == merged[effectorOf[c]] # NoFile                           \* mutant
Reusable(c) ==
    merged[effectorOf[c]] # NoFile /\ content[merged[effectorOf[c]]] = merged_text(c)
Compare(c) ==
    /\ phase[c] = "compare"
    /\ Goto(c, IF Reusable(c) THEN "prepared" ELSE "open")
    /\ UNCHANGED <<base, effectorOf, merged, temp, content, handle, seen>>

(* write_text(): the file is created, or truncated, and then written.        *)
OpenTemp(c) ==
    LET e == effectorOf[c] IN
    /\ phase[c] = "open"
    /\ \E i \in Inodes :
        /\ IF temp[e] = NoFile THEN ~InUse(i) ELSE i = temp[e]
        /\ temp' = [temp EXCEPT ![e] = i]
        /\ handle' = [handle EXCEPT ![c] = i]
        /\ content' = [content EXCEPT ![i] = Truncated]
    /\ Goto(c, "write")
    /\ UNCHANGED <<base, effectorOf, merged, seen>>
WriteTemp(c) ==
    /\ phase[c] = "write"
    /\ content' = [content EXCEPT ![handle[c]] = merged_text(c)]
    /\ handle' = [handle EXCEPT ![c] = NoFile]
    /\ Goto(c, "replace")
    /\ UNCHANGED <<base, effectorOf, merged, temp, seen>>

(* os.replace() raises when the temporary file has gone.                     *)
Replace(c) ==
    LET e == effectorOf[c] IN
    /\ phase[c] = "replace"
    /\ IF temp[e] = NoFile
       THEN Goto(c, "raised") /\ UNCHANGED <<merged, temp>>
       ELSE /\ merged' = [merged EXCEPT ![e] = temp[e]]
            /\ temp' = [temp EXCEPT ![e] = NoFile]
            /\ Goto(c, "prepared")
    /\ UNCHANGED <<base, effectorOf, content, handle, seen>>

(* The client's process is killed and started again.                         *)
Die(c) ==
    /\ Preparing(c)
    /\ Goto(c, "start")
    /\ handle' = [handle EXCEPT ![c] = NoFile]
    /\ UNCHANGED <<base, effectorOf, merged, temp, content, seen>>

(* The client's node opens the path and parses what it finds.                *)
NodeOpens(c) ==
    /\ phase[c] = "prepared"
    /\ handle' = [handle EXCEPT ![c] = merged[effectorOf[c]]]
    /\ Goto(c, "parsing")
    /\ UNCHANGED <<base, effectorOf, merged, temp, content, seen>>
NodeParses(c) ==
    /\ phase[c] = "parsing"
    /\ seen' = [seen EXCEPT ![c] = content[handle[c]]]
    /\ handle' = [handle EXCEPT ![c] = NoFile]
    /\ Goto(c, "parsed")
    /\ UNCHANGED <<base, effectorOf, merged, temp, content>>

UrdfStep(c) ==
    \/ Begin(c) \/ Compare(c) \/ OpenTemp(c) \/ WriteTemp(c) \/ Replace(c)
    \/ NodeOpens(c) \/ NodeParses(c)
UrdfEnded == (\A c \in Clients : phase[c] \in {"parsed", "raised"}) /\ UNCHANGED urdfVars
UrdfNext == (\E c \in Clients : UrdfStep(c) \/ Die(c)) \/ UrdfEnded
UrdfSpec == UrdfInit /\ [][UrdfNext]_urdfVars
----------------------------------------------------------------------------
(* A node computes gravity with the inertia of its own effector in the end   *)
(* link, exactly once, whether or not the base URDF bakes a gripper in and   *)
(* whatever earlier releases, other arms and interrupted clients have left   *)
(* in the shared directory.                                                  *)
InertiaOnce == \A c \in Clients : phase[c] = "parsed" => seen[c] = <<effectorOf[c]>>

(* A reader of a merged URDF sees the previous complete file or the new      *)
(* complete file, never a truncated one; and no client loses its temporary   *)
(* file to another.                                                          *)
NeverTruncated == \A c \in Clients : seen[c] # Truncated /\ phase[c] # "raised"
=============================================================================
