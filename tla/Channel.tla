------------------------------ MODULE Channel ------------------------------
(***************************************************************************)
(* What the relationships promise their users: a party opens a channel, the *)
(* parties post on it, and whoever has joined reads each post at most once, *)
(* under its author's name, in the channel it was posted on.  On an ordered *)
(* channel (a group, with indirect encryption) the posts of one author are  *)
(* read in the order they were made; some may never be read.                *)
(***************************************************************************)
EXTENDS Naturals, Sequences, SequencesExt

CONSTANT Node

VARIABLES
    posts,    \* what has been posted, each named by its position
    joined,   \* the channels every node has joined, named by their opening
    read      \* what every node has read, and from whom

vars == <<posts, joined, read>>

Init ==
    /\ posts = <<>>
    /\ joined = [p \in Node |-> {}]
    /\ read = [p \in Node |-> {}]

IsOpening(t) == t \in DOMAIN posts /\ posts[t].channel = t
PartiesOf(t) == posts[posts[t].channel].parties

\* A channel is opened by one of its parties; a post is on an open channel,
\* by the author's key for that channel.
Post ==
    /\ Len(posts') = Len(posts) + 1
    /\ IsPrefix(posts, posts')
    /\ LET t == Len(posts')
           x == Last(posts') IN
       \/ /\ x.channel = t
          /\ x.author.node \in x.parties
       \/ /\ IsOpening(x.channel)
          /\ x.author.node \in posts[x.channel].parties
          /\ x.channel \in joined[x.author.node]
    /\ UNCHANGED <<joined, read>>

Join(p, t) ==
    /\ IsOpening(t)
    /\ p \in posts[t].parties
    /\ joined' = [joined EXCEPT ![p] = @ \cup {t}]
    /\ UNCHANGED <<posts, read>>

Later(p, t) ==
    {e \in read[p] : /\ e.t > t
                     /\ posts[e.t].channel = posts[t].channel
                     /\ posts[e.t].author = posts[t].author}

Read(p, t) ==
    /\ p \in PartiesOf(t) \ {posts[t].author.node}
    /\ posts[t].channel \in joined[p]
    /\ \A e \in read[p] : e.t # t
    /\ posts[t].ordered => Later(p, t) = {}
    /\ read' = [read EXCEPT ![p] = @ \cup
                   {[t |-> t, rel |-> posts[t].channel, base |-> posts[t].author]}]
    /\ UNCHANGED <<posts, joined>>

Next ==
    \/ Post
    \/ \E p \in Node, t \in DOMAIN posts : Join(p, t) \/ Read(p, t)

Spec == Init /\ [][Next]_vars
=============================================================================
