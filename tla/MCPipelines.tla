----------------------------- MODULE MCPipelines -----------------------------
(***************************************************************************)
(* One file of three chunks of two, one and one blocks, the last of them   *)
(* short, is encoded, or an archive of it is decoded.  The two pipelines   *)
(* share no state: a behaviour is one of EncodePipeline or one of          *)
(* DecodePipeline, and the other pipeline stands in a state in which it    *)
(* has given up before its first chunk.                                    *)
(***************************************************************************)
EXTENDS EncodePipeline, DecodePipeline

MCFile == <<<<2, 2>>, <<2>>, <<1>>>>

NoEncoding ==
  /\ pc = "failed" /\ read = 0 /\ pending = <<>>
  /\ task = [c \in Chunks |-> "none"] /\ enc = [c \in Chunks |-> <<>>]
  /\ blocks = <<>> /\ payload = <<>> /\ crc = <<>>
  /\ checkpoints = FALSE /\ cancel = FALSE /\ stop = FALSE

NoDecoding ==
  /\ entry = [blocks |-> <<>>, payload_size |-> 0, size |-> 0, crc |-> <<>>]
  /\ data = <<>> /\ damaged = FALSE /\ verifying = FALSE
  /\ window = 1 /\ inflight = 1
  /\ phase = "failed" /\ next = 1 /\ queue = <<>> /\ decoder = <<>>
  /\ output = <<>> /\ crc32 = <<>> /\ writable = TRUE /\ refuse = FALSE

Encoding(step) == step /\ NoDecoding /\ UNCHANGED decodeVars
Decoding(step) == step /\ NoEncoding /\ UNCHANGED vars
allVars == <<vars, decodeVars>>

PipelinesInit ==
  \/ Init /\ NoDecoding
  \/ NoEncoding /\ DecodeInit
PipelinesNext == Encoding(Next) \/ Decoding(DecodeNext)

\* The fairness of FairSpec and of FairDecodeSpec.
PipelinesSpec ==
  /\ PipelinesInit /\ [][PipelinesNext]_allVars
  /\ WF_allVars(Encoding(Main)) /\ \A c \in Chunks : WF_allVars(Encoding(Encoder(c)))
  /\ WF_allVars(Decoding(DecodeMain))
  /\ WF_allVars(Decoding(\E b \in DOMAIN decoder : Decoder(b)))
=============================================================================
