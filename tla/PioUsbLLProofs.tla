---------------------------- MODULE PioUsbLLProofs ----------------------------
(* What the endpoint operators of PioUsbLL return, for both controllers.      *)
EXTENDS PioUsbLL, TLAPS

\* The remaining length is a uint16_t, and a transaction never exceeds it.
LEMMA LenType ==
  ASSUME NEW e \in Endpoints
  PROVE  transaction_len(e) \in Nat
BY DEF transaction_len, Endpoints, U16

\* Encoding the next packet gives an endpoint.
LEMMA PrepareType ==
  ASSUME NEW e \in Endpoints
  PROVE  prepare_tx_data(e) \in Endpoints
<1>1. transaction_len(e) \in Nat
  BY LenType
<1>2. DataPid(e.data_id) \in DataPids
  BY DEF DataPid, DataPids
<1>3. [pid |-> DataPid(e.data_id), off |-> e.actual_len, len |-> transaction_len(e)]
        \in [pid : DataPids, off : Nat, len : Nat]
  BY <1>1, <1>2 DEF Endpoints
<1> QED
  BY <1>3 DEF prepare_tx_data, Endpoints

\* configure_endpoint makes an endpoint of any descriptor.
LEMMA ConfigureType ==
  ASSUME NEW e \in Endpoints, NEW d \in Descriptors
  PROVE  configure_endpoint(e, d) \in Endpoints
<1>1. d.max_size \in Nat /\ d.epaddr \in EpAddrs /\ d.attr \in Attrs
  BY DEF Descriptors
<1>2. d.interval \in 0 .. U8 - 1
  BY DEF Descriptors
<1>3. 0 \in 0 .. U8 - 1
  BY DEF U8
<1> QED
  BY <1>1, <1>2, <1>3 DEF configure_endpoint, Endpoints

\* transfer_start's two halves return endpoints.
LEMMA FillType ==
  ASSUME NEW e \in Endpoints, NEW buflen \in Nat
  PROVE  transfer_fill(e, buflen) \in Endpoints
<1> DEFINE f == [e EXCEPT !.total_len = buflen, !.actual_len = 0, !.failed_count = 0]
<1>1. f \in Endpoints
  BY DEF Endpoints
<1>2. prepare_tx_data(f) \in Endpoints
  BY <1>1, PrepareType
<1> QED
  BY <1>1, <1>2 DEF transfer_fill

\* Publishing a transfer gives an endpoint.
LEMMA PublishType ==
  ASSUME NEW e \in Endpoints
  PROVE  transfer_publish(e) \in Endpoints
BY DEF transfer_publish, Endpoints

\* A toggled data_id is a data_id.
LEMMA ToggleType ==
  ASSUME NEW d \in Nat
  PROVE  Toggle(d) \in Nat
BY DEF Toggle

\* transfer_continue returns an endpoint, whatever the packet's length.
LEMMA ContinueType ==
  ASSUME NEW e \in Endpoints, NEW n \in Nat
  PROVE  transfer_continue(e, n) \in Endpoints
<1> DEFINE f == transfer_progress(e, n)
<1>1. Toggle(e.data_id) \in Nat /\ (e.actual_len + n) % U16 \in Nat
  BY ToggleType DEF Endpoints, U16
<1>2. f \in Endpoints
  BY <1>1 DEF transfer_progress, Endpoints
<1>3. [f EXCEPT !.has_transfer = FALSE] \in Endpoints
  BY <1>2 DEF Endpoints
<1>4. prepare_tx_data(f) \in Endpoints
  BY <1>2, PrepareType
<1> QED
  BY <1>2, <1>3, <1>4 DEF transfer_continue

\* The pool entry nothing has been configured in.
LEMMA UnusedType == UnusedEndpoint \in Endpoints
<1>1. /\ [num |-> 0, in |-> FALSE] \in EpAddrs
      /\ [pid |-> "DATA0", off |-> 0, len |-> 0] \in [pid : DataPids, off : Nat, len : Nat]
      /\ 0 \in 0 .. U8 - 1
  BY DEF EpAddrs, DataPids, U8
<1> QED
  BY <1>1 DEF UnusedEndpoint, Endpoints, Attrs

\* What prepare_tx_data stores, field by field, and what it leaves.
LEMMA PrepareFields ==
  ASSUME NEW e \in Endpoints
  PROVE  LET f == prepare_tx_data(e)
         IN  /\ f.encoded = [pid |-> DataPid(e.data_id), off |-> e.actual_len,
                             len |-> transaction_len(e)]
             /\ f.data_id = e.data_id /\ f.is_tx = e.is_tx /\ f.size = e.size
             /\ f.total_len = e.total_len /\ f.actual_len = e.actual_len
             /\ f.has_transfer = e.has_transfer
BY DEF prepare_tx_data, Endpoints

\* The first half of transfer_start: the packet of an endpoint that transmits is
\* encoded from the buffer's start.
LEMMA FillFields ==
  ASSUME NEW e \in Endpoints, NEW buflen \in Nat
  PROVE  LET f == transfer_fill(e, buflen)
         IN  /\ f.data_id = e.data_id /\ f.is_tx = e.is_tx /\ f.size = e.size
             /\ f.total_len = buflen /\ f.actual_len = 0
             /\ f.has_transfer = e.has_transfer
             /\ e.is_tx => f.encoded = [pid |-> DataPid(e.data_id), off |-> 0,
                                        len |-> transaction_len(f)]
<1> DEFINE g == [e EXCEPT !.total_len = buflen, !.actual_len = 0, !.failed_count = 0]
<1>1. /\ g \in Endpoints
      /\ g.data_id = e.data_id /\ g.is_tx = e.is_tx /\ g.size = e.size
      /\ g.total_len = buflen /\ g.actual_len = 0 /\ g.has_transfer = e.has_transfer
  BY DEF Endpoints
<1>2. transfer_fill(e, buflen) = IF g.is_tx THEN prepare_tx_data(g) ELSE g
  BY DEF transfer_fill
<1> HIDE DEF g
<1>3. CASE e.is_tx
  <2>1. transfer_fill(e, buflen) = prepare_tx_data(g)
    BY <1>1, <1>2, <1>3
  <2>2. transaction_len(prepare_tx_data(g)) = transaction_len(g)
    BY <1>1, PrepareFields DEF transaction_len
  <2> QED
    BY <1>1, <2>1, <2>2, PrepareFields
<1>4. CASE ~e.is_tx
  BY <1>1, <1>2, <1>4
<1> QED
  BY <1>3, <1>4 DEF Endpoints

\* The last store of transfer_start changes nothing else.
LEMMA PublishFields ==
  ASSUME NEW e \in Endpoints
  PROVE  LET f == transfer_publish(e)
         IN  /\ f.data_id = e.data_id /\ f.is_tx = e.is_tx /\ f.size = e.size
             /\ f.total_len = e.total_len /\ f.actual_len = e.actual_len
             /\ f.encoded = e.encoded /\ f.has_transfer = TRUE
BY DEF transfer_publish, Endpoints

\* A packet that went well moves the transfer on and turns the toggle.
LEMMA ProgressFields ==
  ASSUME NEW e \in Endpoints, NEW n \in Nat
  PROVE  LET f == transfer_progress(e, n)
         IN  /\ f \in Endpoints
             /\ f.data_id = Toggle(e.data_id) /\ f.actual_len = (e.actual_len + n) % U16
             /\ f.is_tx = e.is_tx /\ f.size = e.size /\ f.total_len = e.total_len
             /\ f.encoded = e.encoded /\ f.has_transfer = e.has_transfer
<1>1. Toggle(e.data_id) \in Nat /\ (e.actual_len + n) % U16 \in Nat
  BY ToggleType DEF Endpoints, U16
<1> QED
  BY <1>1 DEF transfer_progress, Endpoints

\* transfer_continue leaves the endpoint's size, direction and length alone.
LEMMA ContinueFields ==
  ASSUME NEW e \in Endpoints, NEW n \in Nat
  PROVE  LET f == transfer_continue(e, n)
         IN  f.is_tx = e.is_tx /\ f.size = e.size /\ f.total_len = e.total_len
<1> DEFINE g == transfer_progress(e, n)
<1>1. g \in Endpoints /\ g.is_tx = e.is_tx /\ g.size = e.size /\ g.total_len = e.total_len
  BY ProgressFields
<1>2. LET f == prepare_tx_data(g)
      IN  f.is_tx = g.is_tx /\ f.size = g.size /\ f.total_len = g.total_len
  BY <1>1, PrepareFields
<1>3. LET f == [g EXCEPT !.has_transfer = FALSE]
      IN  f.is_tx = g.is_tx /\ f.size = g.size /\ f.total_len = g.total_len
  BY <1>1 DEF Endpoints
<1>4. \/ transfer_continue(e, n) = g \/ transfer_continue(e, n) = prepare_tx_data(g)
      \/ transfer_continue(e, n) = [g EXCEPT !.has_transfer = FALSE]
  <2> HIDE DEF g
  <2>1. transfer_continue(e, n) = IF transfer_finished(e, n) THEN [g EXCEPT !.has_transfer = FALSE]
                                  ELSE IF g.is_tx THEN prepare_tx_data(g) ELSE g
    BY DEF transfer_continue, g
  <2> QED
    BY <2>1
<1> HIDE DEF g
<1> QED
  BY <1>1, <1>2, <1>3, <1>4
=============================================================================
