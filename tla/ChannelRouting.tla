--------------------------- MODULE ChannelRouting ---------------------------
(***************************************************************************)
(* The channels of a block on their way from the host through the chain of *)
(* the server and back.  Only active channels travel: the plugin copies    *)
(* them into a smaller buffer (Common/Source/ChannelMapper.hpp), and the   *)
(* server spreads that buffer over the channels of its chain.  The user    *)
(* changes the active channels while blocks are processed; the server      *)
(* learns of them with the next connection.  The stream is unbuffered.     *)
(*                                                                         *)
(* The content of a channel is Dry(c), what the host passed in channel c,  *)
(* Wet(c), what the chain put into its channel c, or Silent.               *)
(***************************************************************************)
EXTENDS Integers, FiniteSetsExt, Functions

CONSTANTS
  Kinds,       (* Builds of the plugin: subset of {"fx", "inst"}.          *)
  MaxChannels, (* Bound on the inputs and outputs of the host.             *)
  MainChannels,(* Channels of the main output bus of an instrument.        *)
  MaxExtra,    (* Bound on channels that a plugin of the chain adds.       *)
  MaxEdits,    (* Bound on changes of the active channels.                 *)
  MaxLayouts   (* Bound on changes of the layout by the host.              *)

ASSUME ChannelAssumption ==
  /\ Kinds \subseteq {"fx", "inst"}
  /\ MaxChannels \in Nat \ {0} /\ MainChannels \in 1..MaxChannels
  /\ {MaxExtra, MaxEdits, MaxLayouts} \subseteq Nat

VARIABLES
  kind,        (* The build.                                               *)
  host,        (* Inputs, with the sidechain, and outputs of the host.     *)
  prepared,    (* m_prepared: blocks are only passed in between.           *)
  bits,        (* m_activeChannels, the bits read as inputs and as outputs *)
  counts,      (* its m_numInputs, m_numOutputs, which Client knows too.   *)
  mapper,      (* m_channelMapper of the plugin.                           *)
  ui,          (* Where the menu action is.                                *)
  client,      (* Where the client thread is.                              *)
  ready,       (* m_ready                                                  *)
  needsReconnect,
  session,     (* Channels that the worker was told.                       *)
  extra,       (* Extra channels of the chain.                             *)
  block        (* The block of the audio thread: see PrepareBlock.         *)

(* History: an edit whose reconnect() fell into init(), and a layout that  *)
(* came back to what it had been.                                          *)
VARIABLES overtaken, probed, edits, layouts

channels == <<kind, host, prepared, bits, counts, mapper, ui>>
connection == <<client, ready, needsReconnect, session>>
history == <<overtaken, probed, edits, layouts>>
routingVars == <<channels, connection, extra, block, history>>

Channels == 0..MaxChannels - 1
Below(n) == 0..n - 1
Larger(m, n) == IF m > n THEN m ELSE n

Dry(c) == <<"dry", c>>
Wet(c) == <<"wet", c>>
Silent == <<"silent", 0>>
SilentBuffer(n) == [c \in Below(n) |-> Silent]

-----------------------------------------------------------------------------
(* ChannelSet: a view has the numbers of channels and the active ones.     *)

View(b, n) == [ins |-> n.ins, outs |-> n.outs, in |-> b.in, out |-> b.out]

(* Without inputs the outputs begin at the first bit of the server's set.  *)
ServerView(v) == IF v.ins > 0 THEN v ELSE [v EXCEPT !.out = v.in]

Combined(v) == Larger(v.ins, v.outs)
ActiveInputs(v) == v.in \cap Below(v.ins)
ActiveOutputs(v) == v.out \cap Below(v.outs)

(* Plausible mistake: only outputs are counted.                            *)
Travelling_Outputs(v) == Cardinality(ActiveOutputs(v))

(* The channels of the reduced buffer.                                     *)
Travelling(v) == Larger(Cardinality(ActiveInputs(v)), Cardinality(ActiveOutputs(v)))

(* Plausible mistake: the channels of the reduced buffer are not packed.   *)
Ranks_Unpacked(v) ==
  LET sel == Below(Combined(v)) \cap (IF v.ins > 0 THEN v.in ELSE v.out) IN
    [c \in sel |-> c]

-----------------------------------------------------------------------------
(* ChannelMapper.                                                          *)

NoMap == [c \in {} |-> c]

(* Channels of the larger buffer to their places in the reduced one.       *)
Ranks(v) ==
  LET sel == Below(Combined(v)) \cap (IF v.ins > 0 THEN v.in ELSE v.out) IN
    [c \in sel |-> Cardinality({d \in sel : d < c})]

(* And back, with inputs only where the output is active too.              *)
Back(v) ==
  LET ranks == Ranks(v) IN
    AntiFunction(IF v.ins > 0 THEN Restrict(ranks, DOMAIN ranks \cap v.out)
                              ELSE ranks)

PluginMapping(v) ==
  [fwd |-> IF v.ins > 0 THEN Ranks(v) ELSE NoMap, rev |-> Back(v)]

(* Plausible mistake: the instrument branch does not invert.               *)
ServerMapping_Same(v) ==
  [fwd |-> IF v.ins > 0 THEN Back(v) ELSE NoMap,
   rev |-> IF v.ins > 0 THEN Ranks(v) ELSE Back(v)]

(* The server takes the directions inverted.                               *)
ServerMapping(v) ==
  [fwd |-> IF v.ins > 0 THEN Back(v) ELSE NoMap, rev |-> Ranks(v)]

Mapped(map, src, dst) ==
  [d \in DOMAIN dst |->
     IF \E s \in DOMAIN src \cap DOMAIN map : map[s] = d
       THEN src[CHOOSE s \in DOMAIN src \cap DOMAIN map : map[s] = d]
       ELSE Silent]

-----------------------------------------------------------------------------
ClientView == View(bits, counts)

NoSession == [ins |-> 0, outs |-> 0, in |-> {}, out |-> {}]

NoBlock == [step |-> "done", same |-> TRUE, buffer |-> NoMap, send |-> NoMap,
            chain |-> NoMap, settled |-> FALSE]

(* A project is loaded with any active channels.                           *)
RoutingInit ==
  /\ kind \in Kinds
  /\ host \in [ins : IF kind = "fx" THEN 0..MaxChannels ELSE {0},
               outs : 1..MaxChannels]
  /\ counts = host /\ prepared = TRUE
  /\ bits \in {b \in [in : SUBSET Channels, out : SUBSET Channels] :
                 kind = "inst" => b.in = b.out}
  /\ mapper = PluginMapping(ClientView)
  /\ ui = "idle" /\ client = "down" /\ ready = FALSE
  /\ needsReconnect = FALSE /\ session = NoSession
  /\ extra \in 0..MaxExtra /\ block = NoBlock
  /\ overtaken = FALSE /\ probed = FALSE /\ edits = 0 /\ layouts = 0

(* What the other threads do to a block under way is remembered.           *)
Disturb == block' = [block EXCEPT !.settled = FALSE]

Settled ==
  /\ client = "up" /\ ready /\ ~needsReconnect /\ ui = "idle"
  /\ session = ServerView(ClientView)

-----------------------------------------------------------------------------
(* The menu of the editor: bits, mapping, reconnect(), one by one.         *)

SetActive(side, c) ==
  /\ ui = "idle" /\ prepared
  /\ edits < MaxEdits /\ edits' = edits + 1
  /\ c < (IF side = "in" THEN counts.ins ELSE counts.outs)
  /\ LET toggled(s) == IF c \in s THEN s \ {c} ELSE s \cup {c} IN
       bits' = IF kind = "inst" THEN [in |-> toggled(bits.in), out |-> toggled(bits.out)]
               ELSE [bits EXCEPT ![side] = toggled(@)]
  /\ ui' = "reset"
  /\ Disturb
  /\ UNCHANGED <<kind, host, prepared, counts, mapper, connection, extra,
                 overtaken, probed, layouts>>

ResetMapping ==
  /\ ui = "reset"
  /\ mapper' = [fwd |-> NoMap, rev |-> NoMap]
  /\ ui' = "create"
  /\ Disturb
  /\ UNCHANGED <<kind, host, prepared, bits, counts, connection, extra, history>>

CreateMapping ==
  /\ ui = "create"
  /\ mapper' = PluginMapping(ClientView)
  /\ ui' = "reconnect"
  /\ Disturb
  /\ UNCHANGED <<kind, host, prepared, bits, counts, connection, extra, history>>

(* Plausible mistake: the editor does not ask for a new connection.        *)
Reconnect_Forgotten ==
  /\ ui = "reconnect"
  /\ ui' = "idle"
  /\ Disturb
  /\ overtaken' = (overtaken \/ client = "init")
  /\ UNCHANGED <<kind, host, prepared, bits, counts, mapper, connection, extra,
                 probed, edits, layouts>>

Reconnect ==
  /\ ui = "reconnect"
  /\ needsReconnect' = TRUE
  /\ ui' = "idle"
  /\ Disturb
  /\ overtaken' = (overtaken \/ client = "init")
  /\ UNCHANGED <<kind, host, prepared, bits, counts, mapper, client, ready, session,
                 extra, probed, edits, layouts>>

-----------------------------------------------------------------------------
(* The host: another layout, or one that it only tries.                    *)

NumChannelsChanged(layout) ==
  /\ ui = "idle" /\ block.step = "done"
  /\ layouts < MaxLayouts /\ layouts' = layouts + 1
  /\ prepared' = FALSE
  /\ host' = layout
  /\ bits' = IF kind = "fx" THEN [in |-> Channels, out |-> Channels]
             ELSE LET set == (bits.out \ Below(counts.outs))
                               \cup (Below(MainChannels) \cap Below(layout.outs))
                  IN [in |-> set, out |-> set]
  /\ Disturb
  /\ UNCHANGED <<kind, counts, mapper, ui, connection, extra, overtaken, probed, edits>>

(* Plausible mistake: the mapping of the old layout is kept.               *)
PrepareToPlay_OldMapping ==
  /\ ~prepared
  /\ client # "init"
  /\ prepared' = TRUE
  /\ counts' = host
  /\ needsReconnect' = TRUE /\ ready' = FALSE
  /\ Disturb
  /\ UNCHANGED <<kind, host, bits, mapper, ui, client, session, extra, history>>

(* Client::init(...) waits for an init() of the client thread.             *)
PrepareToPlay ==
  /\ ~prepared
  /\ client # "init"
  /\ prepared' = TRUE
  /\ counts' = host
  /\ mapper' = PluginMapping(View(bits, host))
  /\ IF ~ready \/ counts # host
       THEN /\ needsReconnect' = TRUE /\ ready' = FALSE
            /\ UNCHANGED probed
       ELSE /\ probed' = TRUE
            /\ UNCHANGED <<needsReconnect, ready>>
  /\ Disturb
  /\ UNCHANGED <<kind, host, bits, ui, client, session, extra, overtaken, edits, layouts>>

-----------------------------------------------------------------------------
(* The client thread, see ClientConnection.                                *)

CloseSession ==
  /\ client = "up" /\ needsReconnect
  /\ client' = "down" /\ ready' = FALSE /\ session' = NoSession
  /\ Disturb
  /\ UNCHANGED <<channels, needsReconnect, extra, history>>

Handshake ==
  /\ client = "down"
  /\ client' = "init"
  /\ session' = ServerView(ClientView)
  /\ overtaken' = FALSE /\ probed' = FALSE
  /\ Disturb
  /\ UNCHANGED <<channels, ready, needsReconnect, extra, edits, layouts>>

Connected ==
  /\ client = "init"
  /\ client' = "up" /\ ready' = TRUE /\ needsReconnect' = FALSE
  /\ Disturb
  /\ UNCHANGED <<channels, session, extra, history>>

-----------------------------------------------------------------------------
(* The audio thread: processBlockInternal().                               *)

(* Without a mapping inactive outputs are cleared before the block goes.   *)
PrepareBlock ==
  /\ block.step = "done" /\ prepared
  /\ LET n == Larger(host.ins, host.outs)
         size == Travelling(ClientView)
         silenced(c) == kind = "inst" \/ c >= host.ins
                          \/ (size = n /\ c \notin bits.out) IN
       block' = [step |-> "prepared", same |-> size = n, chain |-> NoMap,
                 buffer |-> [c \in Below(n) |-> IF silenced(c) THEN Silent ELSE Dry(c)],
                 send |-> SilentBuffer(size), settled |-> Settled]
  /\ UNCHANGED <<channels, connection, extra, history>>

Map ==
  /\ block.step = "prepared"
  /\ ready
  /\ block' = [block EXCEPT !.step = "sent",
                 !.send = IF block.same THEN block.buffer
                          ELSE Mapped(mapper.fwd, block.buffer, block.send)]
  /\ UNCHANGED <<channels, connection, extra, history>>

NotReady ==
  /\ block.step = "prepared"
  /\ ~ready
  /\ block' = [NoBlock EXCEPT !.buffer = [c \in DOMAIN block.buffer |-> Silent]]
  /\ UNCHANGED <<channels, connection, extra, history>>

Missing == Cardinality(ActiveInputs(session)) > Cardinality(DOMAIN block.send)

(* AudioWorker: with as many channels as the chain has there is no         *)
(* mapping; an instrument's chain begins with silence.                     *)
ServeBlock ==
  /\ block.step = "sent" /\ client = "up" /\ ~Missing
  /\ LET n == Combined(session) + extra
         direct == n <= Cardinality(DOMAIN block.send)
         map == ServerMapping(session)
         chain == IF direct THEN block.send
                  ELSE IF ActiveInputs(session) = {} THEN SilentBuffer(n)
                  ELSE Mapped(map.fwd, block.send, SilentBuffer(n))
         output == [c \in DOMAIN chain |-> Wet(c)] IN
       block' = [block EXCEPT !.step = "served", !.chain = chain,
                   !.send = IF direct THEN output
                            ELSE Mapped(map.rev, output, block.send)]
  /\ UNCHANGED <<channels, connection, extra, history>>

(* "buffer has not enough channels": the worker closes the socket, which   *)
(* the client takes for an error.                                          *)
Refuse ==
  /\ block.step = "sent" /\ client = "up" /\ Missing
  /\ block' = [block EXCEPT !.step = "served", !.settled = FALSE]
  /\ needsReconnect' = TRUE
  /\ UNCHANGED <<channels, client, ready, session, extra, history>>

(* The connection is gone.                                                 *)
Unserved ==
  /\ block.step = "sent" /\ client # "up"
  /\ block' = [block EXCEPT !.step = "served", !.settled = FALSE]
  /\ UNCHANGED <<channels, connection, extra, history>>

MapReverse ==
  /\ block.step = "served"
  /\ block' = [block EXCEPT !.step = "done",
                 !.buffer = IF block.same THEN block.send
                            ELSE Mapped(mapper.rev, block.send, block.buffer)]
  /\ UNCHANGED <<channels, connection, extra, history>>

-----------------------------------------------------------------------------
RoutingNext ==
  \/ \E side \in {"in", "out"}, c \in Channels : SetActive(side, c)
  \/ ResetMapping \/ CreateMapping \/ Reconnect
  \/ \E ins \in IF kind = "fx" THEN 0..MaxChannels ELSE {0}, outs \in 1..MaxChannels :
       NumChannelsChanged([ins |-> ins, outs |-> outs])
  \/ PrepareToPlay
  \/ CloseSession \/ Handshake \/ Connected
  \/ PrepareBlock \/ Map \/ NotReady \/ ServeBlock \/ Refuse \/ Unserved \/ MapReverse

RoutingSpec == RoutingInit /\ [][RoutingNext]_routingVars

-----------------------------------------------------------------------------
(* Properties.  Those about routing are about blocks during which nothing  *)
(* changed; the plugin and the worker then have the same channel set.      *)

Arrived == block.step = "done" /\ block.settled

ReachesChain(c) == c \in DOMAIN block.chain /\ block.chain[c] = Dry(c)

(* With the same inputs and outputs active, and for an instrument, every   *)
(* active channel gets to its channel of the chain and back to its channel *)
(* of the host, every other one is silent at both ends, whatever channels  *)
(* the chain adds.                                                         *)
Routed ==
  Arrived =>
    LET all == Below(Combined(session))
        alike == session.in \cap all = session.out \cap all IN
      /\ session.ins > 0 /\ alike =>
           \A c \in Below(session.ins) : ReachesChain(c) <=> c \in session.in
      /\ (session.ins > 0 /\ alike) \/ kind = "inst" =>
           \A c \in Below(session.outs) :
             block.buffer[c] = IF c \in session.out THEN Wet(c) ELSE Silent

(* If the chain adds no channels, channels are never exchanged, also with  *)
(* different inputs and outputs: what is heard in a channel comes from the *)
(* same channel of the chain, and what that gets is its own input.         *)
NoCrossTalk ==
  Arrived /\ extra = 0 /\ (session.ins > 0 \/ kind = "inst") =>
    /\ \A c \in DOMAIN block.chain \cap Below(session.ins) :
         block.chain[c] \in {Dry(c), Silent}
    /\ \A c \in DOMAIN block.buffer : block.buffer[c] \in {Wet(c), Silent}

(* The worker refuses a block only when the channels were changed.         *)
EnoughChannels == block.step = "sent" /\ block.settled /\ client = "up" => ~Missing

(* A session with other channels than the plugin's is going to be replaced,*)
(* unless reconnect() fell into the init() that clears its flag, or the    *)
(* host came back to a layout before prepareToPlay().                      *)
StaleSessionReplaced ==
  client = "up" /\ ui = "idle" /\ prepared /\ session # ServerView(ClientView) =>
    needsReconnect \/ overtaken \/ probed

(* Apart from an edit under way, the mapping is that of the channels.      *)
MapperCurrent == ui = "idle" /\ prepared => mapper = PluginMapping(ClientView)

(* Each block that nothing disturbed has what its way to the chain needs,  *)
(* and its channels get there and back to their places.                    *)
Routing == Routed /\ NoCrossTalk /\ EnoughChannels

(* After an edit or a new layout, the mapping and, in the end, the session *)
(* are about the channels that are active now.                             *)
ChannelsCurrent == StaleSessionReplaced /\ MapperCurrent

(* "copy channels of one buffer to a reduced buffer containing only the    *)
(* active channels" (ChannelMapper.hpp:86): where the mapper is used,      *)
(* active channels reach their ends.                                       *)
ActiveChannelsTravel ==
  Arrived /\ ~block.same /\ session.ins > 0 =>
    /\ \A c \in ActiveInputs(session) : ReachesChain(c)
    /\ \A c \in ActiveOutputs(session) : block.buffer[c] = Wet(c)

(* "clear inactive outputs if we need no mapping, as the mapper takes care *)
(* otherwise" (PluginProcessor.cpp:713).                                   *)
InactiveOutputsSilent ==
  Arrived /\ session.ins > 0 =>
    \A c \in Below(session.outs) \ session.out : block.buffer[c] = Silent
=============================================================================
