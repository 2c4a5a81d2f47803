------------------------------- MODULE GoAssets -------------------------------
(***************************************************************************)
(* asset.go: data payloads, assets and their encodings. Bytes are          *)
(* <<"raw", contents>>, or <<"gzip", bytes>> and <<"deflate", bytes>> for  *)
(* what a compressor made of other bytes.                                  *)
(***************************************************************************)
EXTENDS GoStatus

EmptyBytes == <<"raw", "">>
Sum256(bytes) == <<"sha256", bytes>>
NoDigest == <<"none", 0>>
Encodings == {"UNCOMPRESSED", "GZIP", "DEFLATE"}

ToPayload(data) ==
    [payload |-> data, encoding |-> "UNCOMPRESSED", digest |-> Sum256(data), url |-> ""]

\* PayloadEncodingFromExt: what the extension of the file implies.
PayloadEncodingFromExt(ext) ==
    CASE ext = ".gz" -> "GZIP" [] ext = ".zz" -> "DEFLATE" [] OTHER -> "UNCOMPRESSED"

\* A file is its extension and its bytes: nothing makes them agree.
ToPayloadFromFS(file) ==
    [ToPayload(file.data) EXCEPT !.encoding = PayloadEncodingFromExt(file.ext)]

ToPayloadFromURL(url) ==
    [payload |-> EmptyBytes, encoding |-> "UNCOMPRESSED", digest |-> NoDigest, url |-> url]

dataPayloadToProto(dp) ==
    LET With(kind) == Reply([kind |-> kind, encoding |-> dp.encoding, digest |-> dp.digest])
    IN  CASE dp.url # "" /\ dp.payload = EmptyBytes -> With(<<"url", dp.url>>)
          [] dp.url = "" /\ dp.payload # EmptyBytes -> With(<<"payload", dp.payload>>)
          [] OTHER -> ReplyError(StatusCodeInvalidArgument)

dataPayloadFromProto(pdp) ==
    [payload  |-> IF pdp.kind[1] = "payload" THEN pdp.kind[2] ELSE EmptyBytes,
     url      |-> IF pdp.kind[1] = "url" THEN pdp.kind[2] ELSE "",
     encoding |-> pdp.encoding, digest |-> pdp.digest]

\* An Asset is nil, or <<"asset", its payload in the form of the protocol>>.
ToAsset(dp) ==
    LET r == dataPayloadToProto(dp) IN IF IsOk(r) THEN Reply(<<"asset", r.value>>) ELSE r

CompressGzip(data) == <<"gzip", data>>
CompressDeflate(data) == <<"deflate", data>>
DecompressGzip(data) == IF data[1] = "gzip" THEN Reply(data[2]) ELSE ReplyError(StatusCodeInternal)
DecompressDeflate(data) == IF data[1] = "deflate" THEN Reply(data[2]) ELSE ReplyError(StatusCodeInternal)

DecodePayload(data, encoding) ==
    CASE encoding = "GZIP" -> DecompressGzip(data)
      [] encoding = "DEFLATE" -> DecompressDeflate(data)
      [] encoding = "UNCOMPRESSED" -> Reply(data)

EncodePayload(data, encoding) ==
    CASE encoding = "GZIP" -> CompressGzip(data)
      [] encoding = "DEFLATE" -> CompressDeflate(data)
      [] encoding = "UNCOMPRESSED" -> data

ParsePayloadEncoding(s) ==
    IF s \in Encodings THEN Reply(s) ELSE ReplyError(StatusCodeInvalidArgument)

\* GetPayload of an asset with a URL is empty, and re-encoded it takes the place of the URL.
GetPayload(dp) == IF dp.kind[1] = "payload" THEN dp.kind[2] ELSE EmptyBytes

TranscodeAssetPayload(asset, target) ==
    LET dp == asset[2]
        raw == DecodePayload(GetPayload(dp), dp.encoding)
        encoded == EncodePayload(raw.value, target)
    IN  IF asset = nil THEN ReplyError(StatusCodeInvalidArgument)
        ELSE IF dp.encoding = target THEN Reply(asset)
        ELSE IF ~IsOk(raw) THEN raw
        ELSE Reply(<<"asset", [kind |-> <<"payload", encoded>>, encoding |-> target, digest |-> Sum256(encoded)]>>)
=============================================================================
