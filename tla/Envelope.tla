------------------------------ MODULE Envelope ------------------------------
(***************************************************************************)
(* The envelope of a blob: domain tag, version, payload length, payload    *)
(* and checksum, written at once by save or chunk by chunk by a streaming  *)
(* save, and read by two decoders: the one of load, which holds the whole  *)
(* payload in memory, and the one of load_into and its first pass, which   *)
(* reads it in chunks.  Between a save and a load the file may be damaged  *)
(* and the store opened with other options.                                *)
(*                                                                         *)
(* A byte is a digit of a small radix, the fields have few digits, and the *)
(* checksum is a running one of the same kind: whatever was fed to it in   *)
(* parts counts as if fed at once, and a change of one byte changes it.    *)
(***************************************************************************)
EXTENDS Integers, Sequences

CONSTANTS
  Radix,          \* number of values of a byte
  DomainTagLen, VersionLen, LengthLen, ChecksumLen,
  Version,        \* ENVELOPE_VERSION_V1
  ChunkSize,      \* STREAM_CHUNK_SIZE
  UsizeMax,       \* usize::MAX of the platform
  Domains,        \* the domain tags of the applications
  Maxima,         \* the max_blob_size options that are tried
  Versions,       \* the envelope versions that are tried
  Payloads,       \* the payloads that are saved
  MaxHarm         \* bound on the number of damages

(* The number of values of a field of w bytes.                             *)
Pow(w) ==
  LET p[i \in 0..w] == IF i = 0 THEN 1 ELSE Radix * p[i - 1] IN p[w]

ASSUME EnvelopeAssumption ==
  /\ Radix \in Nat \ {0, 1}
  /\ {DomainTagLen, VersionLen, LengthLen, ChecksumLen, ChunkSize} \subseteq Nat \ {0}
  /\ {UsizeMax, MaxHarm} \subseteq Nat
  /\ Version \in Versions /\ Versions \subseteq 0..(Pow(VersionLen) - 1)
  /\ Domains \subseteq [1..DomainTagLen -> 0..(Radix - 1)]
  /\ Maxima \subseteq 0..(Pow(LengthLen) - 1)
  /\ Payloads \subseteq Seq(0..(Radix - 1))

VARIABLES
  domain,     \* the domain tag of the open store
  maximum,    \* its max_blob_size
  payload,    \* the payload that was given to save
  saver,      \* "idle", "chunks", "saved" or "failed"
  checksum,   \* the worker's running checksum
  written,    \* the worker's count of payload bytes
  file,       \* the file
  savedFor,   \* the domain tag it was saved under
  harm        \* what happened to the file since

vars == <<domain, maximum, payload, saver, checksum, written, file, savedFor, harm>>

Bytes == 0..(Radix - 1)
HeaderLen == DomainTagLen + VersionLen + LengthLen
Overhead == HeaderLen + ChecksumLen

-----------------------------------------------------------------------------
(* to_be_bytes and from_be_bytes for a field of w bytes.                   *)
ToBigEndian(n, w) == [i \in 1..w |-> (n \div Pow(w - i)) % Radix]
FromBigEndian(s) ==
  LET v[i \in 0..Len(s)] == IF i = 0 THEN 0 ELSE v[i - 1] * Radix + s[i]
  IN v[Len(s)]

(* crc32c_append; crc32c is an append to nothing.                          *)
Crc32cStep(c, b) == (c * (Radix + 1) + b + 1) % Pow(ChecksumLen)
Crc32cAppend(sum, s) ==
  LET c[i \in 0..Len(s)] == IF i = 0 THEN sum ELSE Crc32cStep(c[i - 1], s[i])
  IN c[Len(s)]
Crc32c(s) == Crc32cAppend(0, s)

(* BlobFormatIdentity::new and validate_maximum: the options a store can   *)
(* be opened with.                                                         *)
ValidIdentity(version) == version = Version
ValidMaximum(m) == m + Overhead < Pow(LengthLen)

TooLarge(size, m) == size > m

EnvelopeHeader(d, size) ==
  d \o ToBigEndian(Version, VersionLen) \o ToBigEndian(size, LengthLen)

EncodeEnvelope(d, p) ==
  LET header == EnvelopeHeader(d, Len(p)) IN
  header \o p \o ToBigEndian(Crc32cAppend(Crc32c(header), p), ChecksumLen)

-----------------------------------------------------------------------------
(* The decoders.                                                           *)

Truncated(section) == [kind |-> "TruncatedEnvelope", section |-> section]
Failed(kind) == [kind |-> kind]

(* read_exact at an offset of the file.                                    *)
Has(f, at, n) == at + n <= Len(f)
Field(f, at, n) == SubSeq(f, at + 1, at + n)

VersionAt == DomainTagLen
LengthAt == DomainTagLen + VersionLen
DeclaredIn(f) == FromBigEndian(Field(f, LengthAt, LengthLen))

\* mutant: the end of the file is not looked for
NoTrailingCheck(f, n) == FALSE
HasTrailing(f, n) == Len(f) > n

\* mutant: the checksums are not compared
MismatchNever(expected, actual) == FALSE
Mismatch(expected, actual) == expected # actual

(* decode_reader_with_usize_limit, which decode_reader calls with          *)
(* usize::MAX: the header is checked field by field, the payload allocated *)
(* and read, and the checksum taken over the expected header.              *)
DecodeReader(f, d, m) ==
  LET declared == DeclaredIn(f)
      end == HeaderLen + declared
      p == Field(f, HeaderLen, declared)
      actual == Crc32cAppend(Crc32cAppend(Crc32cAppend(Crc32c(d),
                  ToBigEndian(Version, VersionLen)), ToBigEndian(declared, LengthLen)), p)
  IN IF ~Has(f, 0, DomainTagLen) THEN Truncated("Magic")
     ELSE IF Field(f, 0, DomainTagLen) # d THEN Failed("InvalidEnvelopeDomain")
     ELSE IF ~Has(f, VersionAt, VersionLen) THEN Truncated("Version")
     ELSE IF FromBigEndian(Field(f, VersionAt, VersionLen)) # Version
       THEN Failed("UnsupportedEnvelopeVersion")
     ELSE IF ~Has(f, LengthAt, LengthLen) THEN Truncated("PayloadLength")
     ELSE IF TooLarge(declared, m) THEN Failed("BlobTooLarge")
     ELSE IF declared > UsizeMax \/ declared + Overhead > UsizeMax
       THEN Failed("InvalidPayloadLength")
     ELSE IF ~Has(f, HeaderLen, declared) THEN Truncated("Payload")
     ELSE IF ~Has(f, end, ChecksumLen) THEN Truncated("Checksum")
     ELSE IF HasTrailing(f, end + ChecksumLen) THEN Failed("TrailingData")
     ELSE IF Mismatch(FromBigEndian(Field(f, end, ChecksumLen)), actual)
       THEN Failed("ChecksumMismatch")
     ELSE [kind |-> "Ok", payload |-> p]

(* The parts of the payload that the second decoder reads into its buffer. *)
\* mutant: the whole buffer is fed to the checksum, the last read too
WholeBuffers(f, n) ==
  [i \in 1..((n + ChunkSize - 1) \div ChunkSize) |->
     SubSeq(f, HeaderLen + (i - 1) * ChunkSize + 1, HeaderLen + i * ChunkSize)]
Buffers(f, n) ==
  [i \in 1..((n + ChunkSize - 1) \div ChunkSize) |->
     Field(f, HeaderLen + (i - 1) * ChunkSize,
           IF i * ChunkSize > n THEN n - (i - 1) * ChunkSize ELSE ChunkSize)]

Crc32cBuffers(sum, bs) ==
  LET c[i \in 0..Len(bs)] == IF i = 0 THEN sum ELSE Crc32cAppend(c[i - 1], bs[i])
  IN c[Len(bs)]

(* validate_envelope_reader: the checksum is taken over the header that    *)
(* was read and over one buffer after the other.                           *)
ValidateEnvelopeReader(f, d, m) ==
  LET declared == DeclaredIn(f)
      end == HeaderLen + declared
      actual == Crc32cBuffers(Crc32c(Field(f, 0, HeaderLen)), Buffers(f, declared))
  IN IF ~Has(f, 0, DomainTagLen) THEN Truncated("Magic")
     ELSE IF Field(f, 0, DomainTagLen) # d THEN Failed("InvalidEnvelopeDomain")
     ELSE IF ~Has(f, VersionAt, VersionLen) THEN Truncated("Version")
     ELSE IF FromBigEndian(Field(f, VersionAt, VersionLen)) # Version
       THEN Failed("UnsupportedEnvelopeVersion")
     ELSE IF ~Has(f, LengthAt, LengthLen) THEN Truncated("PayloadLength")
     ELSE IF TooLarge(declared, m) THEN Failed("BlobTooLarge")
     ELSE IF ~Has(f, HeaderLen, declared) THEN Truncated("Payload")
     ELSE IF ~Has(f, end, ChecksumLen) THEN Truncated("Checksum")
     ELSE IF HasTrailing(f, end + ChecksumLen) THEN Failed("TrailingData")
     ELSE IF Mismatch(FromBigEndian(Field(f, end, ChecksumLen)), actual)
       THEN Failed("ChecksumMismatch")
     ELSE [kind |-> "Ok", payloadLen |-> declared]

-----------------------------------------------------------------------------
(* The state machine: one file is saved, damaged and read.                 *)

Harms == [kind : {"changed"}, at : Nat \ {0}] \cup [kind : {"cut"}, at : Nat]
         \cup [kind : {"extended"}]

TypeOK ==
  /\ domain \in Domains /\ savedFor \in Domains
  /\ maximum \in Maxima
  /\ payload \in Payloads
  /\ saver \in {"idle", "chunks", "saved", "failed"}
  /\ checksum \in 0..(Pow(ChecksumLen) - 1)
  /\ written \in 0..Len(payload)
  /\ file \in Seq(Bytes)
  /\ harm \in Seq(Harms) /\ Len(harm) <= MaxHarm

Init ==
  /\ domain \in Domains
  /\ maximum \in {m \in Maxima : ValidMaximum(m)}
  /\ payload \in Payloads
  /\ saver = "idle"
  /\ checksum = 0
  /\ written = 0
  /\ file = <<>>
  /\ savedFor = domain
  /\ harm = <<>>

(* A save or a streaming save that is larger than the store allows.        *)
Refuse ==
  /\ saver = "idle"
  /\ TooLarge(Len(payload), maximum)
  /\ saver' = "failed"
  /\ UNCHANGED <<domain, maximum, payload, checksum, written, file, savedFor, harm>>

(* save: the parts are computed and written one after the other.           *)
Save ==
  /\ saver = "idle"
  /\ ~TooLarge(Len(payload), maximum)
  /\ saver' = "saved"
  /\ file' = EncodeEnvelope(domain, payload)
  /\ UNCHANGED <<domain, maximum, payload, checksum, written, savedFor, harm>>

(* write_stream_envelope: the header, then every chunk as it arrives.      *)
\* mutant: the header is left out of the checksum
FreshChecksum == 0
HeaderChecksum == Crc32c(EnvelopeHeader(domain, Len(payload)))

StreamHeader ==
  /\ saver = "idle"
  /\ ~TooLarge(Len(payload), maximum)
  /\ saver' = "chunks"
  /\ file' = EnvelopeHeader(domain, Len(payload))
  /\ checksum' = HeaderChecksum
  /\ UNCHANGED <<domain, maximum, payload, written, savedFor, harm>>

StreamChunk(n) ==
  LET chunk == SubSeq(payload, written + 1, written + n) IN
  /\ saver = "chunks"
  /\ n \in 1..ChunkSize
  /\ written + n <= Len(payload)
  /\ file' = file \o chunk
  /\ checksum' = Crc32cAppend(checksum, chunk)
  /\ written' = written + n
  /\ UNCHANGED <<domain, maximum, payload, saver, savedFor, harm>>

StreamComplete ==
  /\ saver = "chunks"
  /\ written = Len(payload)
  /\ saver' = "saved"
  /\ file' = file \o ToBigEndian(checksum, ChecksumLen)
  /\ UNCHANGED <<domain, maximum, payload, checksum, written, savedFor, harm>>

(* The store is opened again by an application with other options.         *)
Reopen(d, m, version) ==
  /\ saver = "saved"
  /\ ValidIdentity(version) /\ ValidMaximum(m)
  /\ domain' = d
  /\ maximum' = m
  /\ UNCHANGED <<payload, saver, checksum, written, file, savedFor, harm>>

(* The file is damaged.                                                    *)
Damage(h, f) ==
  /\ saver = "saved"
  /\ Len(harm) < MaxHarm
  /\ harm' = Append(harm, h)
  /\ file' = f
  /\ UNCHANGED <<domain, maximum, payload, saver, checksum, written, savedFor>>

ChangeByte == \E i \in 1..Len(file), b \in Bytes :
  b # file[i] /\ Damage([kind |-> "changed", at |-> i], [file EXCEPT ![i] = b])
CutOff == \E n \in 0..(Len(file) - 1) :
  Damage([kind |-> "cut", at |-> n], SubSeq(file, 1, n))
Extend == \E b \in Bytes : Damage([kind |-> "extended"], Append(file, b))

Next ==
  \/ Refuse \/ Save \/ StreamHeader \/ StreamComplete
  \/ \E n \in 1..ChunkSize : StreamChunk(n)
  \/ \E d \in Domains, m \in Maxima, v \in Versions : Reopen(d, m, v)
  \/ ChangeByte \/ CutOff \/ Extend

Spec == Init /\ [][Next]_vars

-----------------------------------------------------------------------------
(* Properties.                                                             *)

Saved == saver = "saved"
Loaded == DecodeReader(file, domain, maximum)
Validated == ValidateEnvelopeReader(file, domain, maximum)
FitsUsize(n) == n + Overhead <= UsizeMax

(* The envelope that a streaming save wrote is the one of save, however    *)
(* the input was split into chunks, and the blob is read back, exactly, by *)
(* both decoders, by every store of its application whose maximum is not   *)
(* below its size; a smaller maximum or another application's store        *)
(* refuses it for that reason.                                             *)
ReadBack ==
  Saved /\ harm = <<>> =>
    /\ file = EncodeEnvelope(savedFor, payload)
    /\ IF domain # savedFor
         THEN {Loaded, Validated} = {Failed("InvalidEnvelopeDomain")}
       ELSE IF Len(payload) > maximum
         THEN {Loaded, Validated} = {Failed("BlobTooLarge")}
       ELSE /\ Validated = [kind |-> "Ok", payloadLen |-> Len(payload)]
            /\ FitsUsize(Len(payload)) => Loaded = [kind |-> "Ok", payload |-> payload]

(* Whatever happened to the file, the two decoders come to the same        *)
(* verdict, with the same error, except for a payload that does not fit    *)
(* the memory of the platform, which only load refuses for that.           *)
DecodersAgree ==
  Saved =>
    \/ Loaded.kind = "Ok" /\ Validated = [kind |-> "Ok", payloadLen |-> Len(Loaded.payload)]
    \/ Loaded.kind # "Ok" /\ Loaded = Validated
    \/ Loaded.kind = "InvalidPayloadLength" /\ ~FitsUsize(DeclaredIn(file))

(* What load accepts is an envelope, byte for byte, of what it returns,    *)
(* after any damage: there is one file for a payload.                      *)
AcceptsOnlyEnvelopes ==
  Saved /\ Loaded.kind = "Ok" => file = EncodeEnvelope(domain, Loaded.payload)

(* The section of the file that a position lies in.                        *)
SectionAt(n) ==
  CASE n < VersionAt -> "Magic"
    [] VersionAt <= n /\ n < LengthAt -> "Version"
    [] LengthAt <= n /\ n < HeaderLen -> "PayloadLength"
    [] HeaderLen <= n /\ n < HeaderLen + Len(payload) -> "Payload"
    [] OTHER -> "Checksum"

(* A single damage is noticed by the store that saved the blob, and the    *)
(* error tells where it is.                                                *)
OneDamageIsNamed ==
  Saved /\ Len(harm) = 1 /\ domain = savedFor /\ Len(payload) <= maximum =>
    LET h == harm[1]
        where == SectionAt(h.at - 1)
        v == Validated
    IN CASE h.kind = "cut" -> v = Truncated(SectionAt(h.at))
         [] h.kind = "extended" -> v = Failed("TrailingData")
         [] h.kind = "changed" ->
              CASE where = "Magic" -> v = Failed("InvalidEnvelopeDomain")
                [] where = "Version" -> v = Failed("UnsupportedEnvelopeVersion")
                [] where = "PayloadLength" -> v.kind \in
                     {"BlobTooLarge", "TruncatedEnvelope", "TrailingData"}
                [] OTHER -> v = Failed("ChecksumMismatch")
=============================================================================
