--------------------------- MODULE CallbackProofs ---------------------------
(***************************************************************************)
(* Proofs about uploads that a storage vendor confirms through a callback, *)
(* and about thumbnails, for every number of deliveries, goroutines and    *)
(* pictures. Each part has an inductive invariant of its own, and a lemma  *)
(* for the initial states and one for the steps.                           *)
(***************************************************************************)
EXTENDS CallbackUpload, Thumbnails, FiniteSetTheorems, TLAPS

-----------------------------------------------------------------------------
(* CallbackUpload: an upload and its callbacks                             *)

\* The record has no size before it exists, and it does not exist before the
\* vendor's token does (CreateUploadSession).
RowShape ==
    /\ row.state = "none" => row.size = 0
    /\ creating \in {"no", "valid", "token"} => row.state = "none"

\* Only OneDrive has a monitor; a deletion under way has been noted; callbacks
\* come after the session was created, and a slave's go another way.
PolicyShape ==
    /\ monitor # "off" => Is("onedrive")
    /\ deletion.at # "none" => condemned
    /\ \A d \in Deliveries : callback[d].at # "none" => creating = "done" /\ ~Is("remote")

\* The uploaded object has a record that no deletion is about to drop, or it
\* arrived late.
OwnAccounted == object.own => late \/ (row.state # "none" /\ deletion.at # "record")

\* Before the driver's Token nothing of this upload exists.
BeforeToken == creating \in {"no", "valid"} => ~object.own /\ monitor = "off"

\* An uploaded object is complete; where the vendor checks the size it has the
\* one that was announced; where the key is new there is no other object under
\* it.
OwnIsFinal ==
    /\ ~condemned /\ object.own => upload = "finished"
    /\ (Is("upyun") \/ Is("remote")) /\ object.own => object.size = Size
    /\ (Is("s3") \/ Is("onedrive") \/ Is("remote")) /\ creating \in {"token", "placed", "done"} => object = Nothing \/ object.own

\* What the checks of a callback establish: the object is this upload's, and
\* its size is the announced one where no vendor vouches for it.
Certain == object.own /\ (policy.kind \in {"oss", "qiniu"} \/ OneDriveSizeFits(object.size))

\* A callback that has passed its checks has established it, unless the upload
\* is being deleted.
CheckedIsCertain ==
    ~condemned => \A d \in Deliveries :
        /\ callback[d].at \in {"checked", "found", "charged", "done"} => Certain
        /\ ByVendor /\ callback[d].at # "none" => object.own

\* The inductive invariant. That a promoted record has the uploaded content
\* depends on what each callback has checked by then, and on the object not
\* changing after the check.
CallbackIndInv ==
    /\ CallbackTypeOK /\ RowShape /\ PolicyShape /\ RecordsCharged /\ OwnAccounted /\ BeforeToken /\ OwnIsFinal /\ CheckedIsCertain
    /\ PromotedIsUploaded

\* Every step of the creation of a session, of the client and the vendor, of
\* each delivery of the callback, of OneDrive's monitor and of a deletion keeps
\* it.
LEMMA CallbackStep == CallbackIndInv /\ [CallbackNext]_callbackVars => CallbackIndInv'
<1> SUFFICES ASSUME CallbackIndInv, [CallbackNext]_callbackVars PROVE CallbackIndInv'
  OBVIOUS
<1> USE CallbackAssumption DEF CallbackIndInv
<1>1. ASSUME Validate PROVE CallbackIndInv'
  <2>1. CallbackTypeOK'
    BY <1>1 DEF Validate, history, serverVars, CallbackTypeOK
  <2>2. RowShape'
    BY <1>1 DEF Validate, history, serverVars, RowShape, CallbackTypeOK, PolicyShape
  <2>3. PolicyShape'
    BY <1>1 DEF Validate, history, serverVars, PolicyShape, CallbackTypeOK, Is
  <2>4. RecordsCharged'
    BY <1>1 DEF Validate, history, serverVars, RecordsCharged, CallbackTypeOK, RowShape
  <2>5. OwnAccounted'
    BY <1>1 DEF Validate, history, serverVars, OwnAccounted, CallbackTypeOK, PolicyShape, RowShape
  <2>6. BeforeToken'
    BY <1>1 DEF Validate, history, serverVars, BeforeToken, CallbackTypeOK, PolicyShape
  <2>7. OwnIsFinal'
    BY <1>1 DEF Validate, history, serverVars, OwnIsFinal, CallbackTypeOK, PolicyShape, Is
  <2>8. CheckedIsCertain'
    BY <1>1 DEF Validate, history, serverVars, CheckedIsCertain, CallbackTypeOK, Certain,
      OneDriveSizeFits, OwnIsFinal, ByVendor, PolicyShape, Is
  <2>9. PromotedIsUploaded'
    BY <1>1 DEF Validate, history, serverVars, PromotedIsUploaded, CallbackTypeOK, Certain,
      CheckedIsCertain, OneDriveSizeFits, PolicyShape, Is, RowShape, OwnIsFinal
  <2> QED BY <2>1, <2>2, <2>3, <2>4, <2>5, <2>6, <2>7, <2>8, <2>9
<1>2. ASSUME Token PROVE CallbackIndInv'
  <2>1. CallbackTypeOK'
    BY <1>2 DEF Token, ossToken, cosToken, s3Token, qiniuToken, upyunToken, remoteToken,
      onedriveToken, CreateUploadSessionRequest, SlaveCreateUploadSession,
      onedriveCreateUploadSession, Is, history, serverVars, CallbackTypeOK
  <2>2. RowShape'
    BY <1>2 DEF Token, ossToken, cosToken, s3Token, qiniuToken, upyunToken, remoteToken,
      onedriveToken, CreateUploadSessionRequest, SlaveCreateUploadSession,
      onedriveCreateUploadSession, Is, history, serverVars, RowShape, CallbackTypeOK, PolicyShape
  <2>3. PolicyShape'
    BY <1>2 DEF Token, ossToken, cosToken, s3Token, qiniuToken, upyunToken, remoteToken,
      onedriveToken, CreateUploadSessionRequest, SlaveCreateUploadSession,
      onedriveCreateUploadSession, Is, history, serverVars, PolicyShape, CallbackTypeOK
  <2>4. RecordsCharged'
    BY <1>2 DEF Token, ossToken, cosToken, s3Token, qiniuToken, upyunToken, remoteToken,
      onedriveToken, CreateUploadSessionRequest, SlaveCreateUploadSession,
      onedriveCreateUploadSession, Is, history, serverVars, RecordsCharged, CallbackTypeOK, RowShape
  <2>5. OwnAccounted'
    BY <1>2 DEF Token, ossToken, cosToken, s3Token, qiniuToken, upyunToken, remoteToken,
      onedriveToken, CreateUploadSessionRequest, SlaveCreateUploadSession,
      onedriveCreateUploadSession, Is, history, serverVars, OwnAccounted, CallbackTypeOK,
      PolicyShape, RowShape
  <2>6. BeforeToken'
    BY <1>2 DEF Token, ossToken, cosToken, s3Token, qiniuToken, upyunToken, remoteToken,
      onedriveToken, CreateUploadSessionRequest, SlaveCreateUploadSession,
      onedriveCreateUploadSession, Is, history, serverVars, BeforeToken, CallbackTypeOK, PolicyShape
  <2>7. OwnIsFinal'
    <3>1. UNCHANGED <<policy, object, condemned>> /\ (~condemned => ~object.own \/ upload = "finished") /\ creating = "valid"
      BY <1>2 DEF Token, history, OwnIsFinal
    <3>2. (Is("s3") \/ Is("onedrive") \/ Is("remote")) => object = Nothing
      BY <1>2
        DEF Token,ossToken,cosToken,s3Token,qiniuToken,upyunToken,remoteToken,onedriveToken,CreateUploadSessionRequest,SlaveCreateUploadSession,onedriveCreateUploadSession,Is
    <3>3. ~object.own
      BY <3>1 DEF BeforeToken
    <3> QED BY <3>1, <3>2, <3>3 DEF OwnIsFinal, Is
  <2>8. CheckedIsCertain'
    BY <1>2 DEF Token, ossToken, cosToken, s3Token, qiniuToken, upyunToken, remoteToken,
      onedriveToken, CreateUploadSessionRequest, SlaveCreateUploadSession,
      onedriveCreateUploadSession, Is, history, serverVars, CheckedIsCertain, CallbackTypeOK,
      Certain, OneDriveSizeFits, OwnIsFinal, ByVendor, PolicyShape
  <2>9. PromotedIsUploaded'
    BY <1>2 DEF Token, ossToken, cosToken, s3Token, qiniuToken, upyunToken, remoteToken,
      onedriveToken, CreateUploadSessionRequest, SlaveCreateUploadSession,
      onedriveCreateUploadSession, Is, history, serverVars, PromotedIsUploaded, CallbackTypeOK,
      Certain, CheckedIsCertain, OneDriveSizeFits, PolicyShape, RowShape, OwnIsFinal
  <2> QED BY <2>1, <2>2, <2>3, <2>4, <2>5, <2>6, <2>7, <2>8, <2>9
<1>3. ASSUME TokenFails PROVE CallbackIndInv'
  <2>1. CallbackTypeOK'
    BY <1>3 DEF TokenFails, Fails, history, serverVars, CallbackTypeOK
  <2>2. RowShape'
    BY <1>3 DEF TokenFails, Fails, history, serverVars, RowShape, CallbackTypeOK, PolicyShape
  <2>3. PolicyShape'
    BY <1>3 DEF TokenFails, Fails, history, serverVars, PolicyShape, CallbackTypeOK, Is
  <2>4. RecordsCharged'
    BY <1>3 DEF TokenFails, Fails, history, serverVars, RecordsCharged, CallbackTypeOK, RowShape
  <2>5. OwnAccounted'
    BY <1>3 DEF TokenFails, Fails, history, serverVars, OwnAccounted, CallbackTypeOK, PolicyShape,
      RowShape
  <2>6. BeforeToken'
    BY <1>3 DEF TokenFails, Fails, history, serverVars, BeforeToken, CallbackTypeOK, PolicyShape
  <2>7. OwnIsFinal'
    BY <1>3 DEF TokenFails, Fails, history, serverVars, OwnIsFinal, CallbackTypeOK, PolicyShape, Is
  <2>8. CheckedIsCertain'
    BY <1>3 DEF TokenFails, Fails, history, serverVars, CheckedIsCertain, CallbackTypeOK, Certain,
      OneDriveSizeFits, OwnIsFinal, ByVendor, PolicyShape, Is
  <2>9. PromotedIsUploaded'
    BY <1>3 DEF TokenFails, Fails, history, serverVars, PromotedIsUploaded, CallbackTypeOK, Certain,
      CheckedIsCertain, OneDriveSizeFits, PolicyShape, Is, RowShape, OwnIsFinal
  <2> QED BY <2>1, <2>2, <2>3, <2>4, <2>5, <2>6, <2>7, <2>8, <2>9
<1>4. ASSUME CacheSession PROVE CallbackIndInv'
  <2>1. CallbackTypeOK'
    BY <1>4 DEF CacheSession, history, serverVars, CallbackTypeOK
  <2>2. RowShape'
    BY <1>4 DEF CacheSession, history, serverVars, RowShape, CallbackTypeOK, PolicyShape
  <2>3. PolicyShape'
    BY <1>4 DEF CacheSession, history, serverVars, PolicyShape, CallbackTypeOK, Is
  <2>4. RecordsCharged'
    BY <1>4 DEF CacheSession, history, serverVars, RecordsCharged, CallbackTypeOK, RowShape
  <2>5. OwnAccounted'
    BY <1>4 DEF CacheSession, history, serverVars, OwnAccounted, CallbackTypeOK, PolicyShape,
      RowShape
  <2>6. BeforeToken'
    BY <1>4 DEF CacheSession, history, serverVars, BeforeToken, CallbackTypeOK, PolicyShape
  <2>7. OwnIsFinal'
    BY <1>4 DEF CacheSession, history, serverVars, OwnIsFinal, CallbackTypeOK, PolicyShape, Is
  <2>8. CheckedIsCertain'
    BY <1>4 DEF CacheSession, history, serverVars, CheckedIsCertain, CallbackTypeOK, Certain,
      OneDriveSizeFits, OwnIsFinal, ByVendor, PolicyShape, Is
  <2>9. PromotedIsUploaded'
    BY <1>4 DEF CacheSession, history, serverVars, PromotedIsUploaded, CallbackTypeOK, Certain,
      CheckedIsCertain, OneDriveSizeFits, PolicyShape, Is, RowShape, OwnIsFinal
  <2> QED BY <2>1, <2>2, <2>3, <2>4, <2>5, <2>6, <2>7, <2>8, <2>9
<1>5. ASSUME SessionExpires PROVE CallbackIndInv'
  <2>1. CallbackTypeOK'
    <3>1. UNCHANGED <<creating, row, object, upload, callback, monitor, told, deletion, used>>
      BY <1>5 DEF SessionExpires
    <3>2. cached' \in BOOLEAN
      BY <1>5 DEF SessionExpires
    <3> QED BY <3>1, <3>2 DEF CallbackTypeOK
  <2>2. RowShape'
    BY <1>5 DEF SessionExpires, history, serverVars, RowShape, CallbackTypeOK, PolicyShape
  <2>3. PolicyShape'
    BY <1>5 DEF SessionExpires, history, serverVars, PolicyShape, CallbackTypeOK, Is
  <2>4. RecordsCharged'
    BY <1>5 DEF SessionExpires, history, serverVars, RecordsCharged, CallbackTypeOK, RowShape
  <2>5. OwnAccounted'
    BY <1>5 DEF SessionExpires, history, serverVars, OwnAccounted, CallbackTypeOK, PolicyShape,
      RowShape
  <2>6. BeforeToken'
    BY <1>5 DEF SessionExpires, history, serverVars, BeforeToken, CallbackTypeOK, PolicyShape
  <2>7. OwnIsFinal'
    BY <1>5 DEF SessionExpires, history, serverVars, OwnIsFinal, CallbackTypeOK, PolicyShape, Is
  <2>8. CheckedIsCertain'
    BY <1>5 DEF SessionExpires, history, serverVars, CheckedIsCertain, CallbackTypeOK, Certain,
      OneDriveSizeFits, OwnIsFinal, ByVendor, PolicyShape, Is
  <2>9. PromotedIsUploaded'
    BY <1>5 DEF SessionExpires, history, serverVars, PromotedIsUploaded, CallbackTypeOK, Certain,
      CheckedIsCertain, OneDriveSizeFits, PolicyShape, Is, RowShape, OwnIsFinal
  <2> QED BY <2>1, <2>2, <2>3, <2>4, <2>5, <2>6, <2>7, <2>8, <2>9
<1>6. ASSUME NEW taken \in BOOLEAN, CreatePlaceholder(taken) PROVE CallbackIndInv'
  <2>1. CallbackTypeOK'
    BY <1>6 DEF CreatePlaceholder, PlaceholderSize, history, serverVars, CallbackTypeOK
  <2>2. RowShape'
    BY <1>6 DEF CreatePlaceholder, PlaceholderSize, history, serverVars, RowShape, CallbackTypeOK,
      PolicyShape
  <2>3. PolicyShape'
    BY <1>6 DEF CreatePlaceholder, PlaceholderSize, history, serverVars, PolicyShape,
      CallbackTypeOK, Is
  <2>4. RecordsCharged'
    BY <1>6 DEF CreatePlaceholder, PlaceholderSize, history, serverVars, RecordsCharged,
      CallbackTypeOK, RowShape
  <2>5. OwnAccounted'
    BY <1>6 DEF CreatePlaceholder, PlaceholderSize, history, serverVars, OwnAccounted,
      CallbackTypeOK, PolicyShape, RowShape
  <2>6. BeforeToken'
    BY <1>6 DEF CreatePlaceholder, PlaceholderSize, history, serverVars, BeforeToken,
      CallbackTypeOK, PolicyShape
  <2>7. OwnIsFinal'
    BY <1>6 DEF CreatePlaceholder, PlaceholderSize, history, serverVars, OwnIsFinal, CallbackTypeOK,
      PolicyShape, Is
  <2>8. CheckedIsCertain'
    BY <1>6 DEF CreatePlaceholder, PlaceholderSize, history, serverVars, CheckedIsCertain,
      CallbackTypeOK, Certain, OneDriveSizeFits, OwnIsFinal, ByVendor, PolicyShape, Is
  <2>9. PromotedIsUploaded'
    BY <1>6 DEF CreatePlaceholder, PlaceholderSize, history, serverVars, PromotedIsUploaded,
      CallbackTypeOK, Certain, CheckedIsCertain, OneDriveSizeFits, PolicyShape, Is, RowShape,
      OwnIsFinal
  <2> QED BY <2>1, <2>2, <2>3, <2>4, <2>5, <2>6, <2>7, <2>8, <2>9
<1>7. ASSUME StartUpload PROVE CallbackIndInv'
  <2>1. CallbackTypeOK'
    BY <1>7 DEF StartUpload, history, serverVars, CallbackTypeOK
  <2>2. RowShape'
    BY <1>7 DEF StartUpload, history, serverVars, RowShape, CallbackTypeOK, PolicyShape
  <2>3. PolicyShape'
    BY <1>7 DEF StartUpload, history, serverVars, PolicyShape, CallbackTypeOK, Is
  <2>4. RecordsCharged'
    BY <1>7 DEF StartUpload, history, serverVars, RecordsCharged, CallbackTypeOK, RowShape
  <2>5. OwnAccounted'
    BY <1>7 DEF StartUpload, history, serverVars, OwnAccounted, CallbackTypeOK, PolicyShape,
      RowShape
  <2>6. BeforeToken'
    BY <1>7 DEF StartUpload, history, serverVars, BeforeToken, CallbackTypeOK, PolicyShape
  <2>7. OwnIsFinal'
    BY <1>7 DEF StartUpload, history, serverVars, OwnIsFinal, CallbackTypeOK, PolicyShape, Is
  <2>8. CheckedIsCertain'
    BY <1>7 DEF StartUpload, history, serverVars, CheckedIsCertain, CallbackTypeOK, Certain,
      OneDriveSizeFits, OwnIsFinal, ByVendor, PolicyShape, Is
  <2>9. PromotedIsUploaded'
    BY <1>7 DEF StartUpload, history, serverVars, PromotedIsUploaded, CallbackTypeOK, Certain,
      CheckedIsCertain, OneDriveSizeFits, PolicyShape, Is, RowShape, OwnIsFinal
  <2> QED BY <2>1, <2>2, <2>3, <2>4, <2>5, <2>6, <2>7, <2>8, <2>9
<1>8. ASSUME VendorExpires PROVE CallbackIndInv'
  <2>1. CallbackTypeOK'
    BY <1>8 DEF VendorExpires, history, serverVars, CallbackTypeOK
  <2>2. RowShape'
    BY <1>8 DEF VendorExpires, history, serverVars, RowShape, CallbackTypeOK, PolicyShape
  <2>3. PolicyShape'
    BY <1>8 DEF VendorExpires, history, serverVars, PolicyShape, CallbackTypeOK, Is
  <2>4. RecordsCharged'
    BY <1>8 DEF VendorExpires, history, serverVars, RecordsCharged, CallbackTypeOK, RowShape
  <2>5. OwnAccounted'
    BY <1>8 DEF VendorExpires, history, serverVars, OwnAccounted, CallbackTypeOK, PolicyShape,
      RowShape
  <2>6. BeforeToken'
    BY <1>8 DEF VendorExpires, history, serverVars, BeforeToken, CallbackTypeOK, PolicyShape
  <2>7. OwnIsFinal'
    BY <1>8 DEF VendorExpires, history, serverVars, OwnIsFinal, CallbackTypeOK, PolicyShape, Is
  <2>8. CheckedIsCertain'
    BY <1>8 DEF VendorExpires, history, serverVars, CheckedIsCertain, CallbackTypeOK, Certain,
      OneDriveSizeFits, OwnIsFinal, ByVendor, PolicyShape, Is
  <2>9. PromotedIsUploaded'
    BY <1>8 DEF VendorExpires, history, serverVars, PromotedIsUploaded, CallbackTypeOK, Certain,
      CheckedIsCertain, OneDriveSizeFits, PolicyShape, Is, RowShape, OwnIsFinal
  <2> QED BY <2>1, <2>2, <2>3, <2>4, <2>5, <2>6, <2>7, <2>8, <2>9
<1>9. ASSUME NEW n \in Sizes, FinishUpload(n) PROVE CallbackIndInv'
  <2>1. CallbackTypeOK'
    <3>1. UNCHANGED <<creating, row, cached, callback, monitor, told, deletion, used>> /\ upload' = "finished"
      BY <1>9 DEF FinishUpload, serverVars
    <3>2. object' = object \/ object' = Own(n)
      BY <1>9 DEF FinishUpload
    <3>3. Own(n) \in [size : Sizes \cup {-1, 0}, own : BOOLEAN]
      BY DEF Own
    <3> QED BY <3>1, <3>2, <3>3 DEF CallbackTypeOK
  <2>2. RowShape'
    BY <1>9 DEF FinishUpload, Accepted, Is, Own, history, serverVars, RowShape, CallbackTypeOK,
      PolicyShape
  <2>3. PolicyShape'
    BY <1>9 DEF FinishUpload, Accepted, Is, Own, history, serverVars, PolicyShape, CallbackTypeOK
  <2>4. RecordsCharged'
    BY <1>9 DEF FinishUpload, Accepted, Is, Own, history, serverVars, RecordsCharged,
      CallbackTypeOK, RowShape
  <2>5. OwnAccounted'
    BY <1>9 DEF FinishUpload, Accepted, Is, Own, history, serverVars, OwnAccounted, CallbackTypeOK,
      PolicyShape, RowShape
  <2>6. BeforeToken'
    BY <1>9 DEF FinishUpload, Accepted, Is, Own, history, serverVars, BeforeToken, CallbackTypeOK,
      PolicyShape
  <2>7. OwnIsFinal'
    BY <1>9 DEF FinishUpload, Accepted, Is, Own, history, serverVars, OwnIsFinal, CallbackTypeOK,
      PolicyShape
  <2>8. CheckedIsCertain'
    BY <1>9 DEF FinishUpload, Accepted, Is, Own, history, serverVars, CheckedIsCertain,
      CallbackTypeOK, Certain, OneDriveSizeFits, OwnIsFinal, ByVendor, PolicyShape
  <2>9. PromotedIsUploaded'
    BY <1>9 DEF FinishUpload, Accepted, Is, Own, history, serverVars, PromotedIsUploaded,
      CallbackTypeOK, Certain, CheckedIsCertain, OneDriveSizeFits, PolicyShape, RowShape, OwnIsFinal
  <2> QED BY <2>1, <2>2, <2>3, <2>4, <2>5, <2>6, <2>7, <2>8, <2>9
<1>10. ASSUME NEW d \in Deliveries, uploadCallbackCheck(d) PROVE CallbackIndInv'
  <2>1. CallbackTypeOK'
    BY <1>10 DEF uploadCallbackCheck, Is, ByVendor, history, serverVars, CallbackTypeOK
  <2>2. RowShape'
    BY <1>10 DEF uploadCallbackCheck, Is, ByVendor, history, serverVars, RowShape, CallbackTypeOK,
      PolicyShape
  <2>3. PolicyShape'
    BY <1>10 DEF uploadCallbackCheck, Is, ByVendor, history, serverVars, PolicyShape, CallbackTypeOK
  <2>4. RecordsCharged'
    BY <1>10 DEF uploadCallbackCheck, Is, ByVendor, history, serverVars, RecordsCharged,
      CallbackTypeOK, RowShape
  <2>5. OwnAccounted'
    BY <1>10 DEF uploadCallbackCheck, Is, ByVendor, history, serverVars, OwnAccounted,
      CallbackTypeOK, PolicyShape, RowShape
  <2>6. BeforeToken'
    BY <1>10 DEF uploadCallbackCheck, Is, ByVendor, history, serverVars, BeforeToken,
      CallbackTypeOK, PolicyShape
  <2>7. OwnIsFinal'
    BY <1>10 DEF uploadCallbackCheck, Is, ByVendor, history, serverVars, OwnIsFinal, CallbackTypeOK,
      PolicyShape
  <2>8. CheckedIsCertain'
    BY <1>10 DEF uploadCallbackCheck, Is, ByVendor, history, serverVars, CheckedIsCertain,
      CallbackTypeOK, Certain, OneDriveSizeFits, OwnIsFinal, PolicyShape
  <2>9. PromotedIsUploaded'
    BY <1>10 DEF uploadCallbackCheck, Is, ByVendor, history, serverVars, PromotedIsUploaded,
      CallbackTypeOK, Certain, CheckedIsCertain, OneDriveSizeFits, PolicyShape, RowShape, OwnIsFinal
  <2> QED BY <2>1, <2>2, <2>3, <2>4, <2>5, <2>6, <2>7, <2>8, <2>9
<1>11. ASSUME NEW d \in Deliveries, CallbackAuth(d) PROVE CallbackIndInv'
  <2>1. CallbackTypeOK'
    BY <1>11 DEF CallbackAuth, Step, Is, history, serverVars, CallbackTypeOK
  <2>2. RowShape'
    BY <1>11 DEF CallbackAuth, Step, Is, history, serverVars, RowShape, CallbackTypeOK, PolicyShape
  <2>3. PolicyShape'
    BY <1>11 DEF CallbackAuth, Step, Is, history, serverVars, PolicyShape, CallbackTypeOK
  <2>4. RecordsCharged'
    BY <1>11 DEF CallbackAuth, Step, Is, history, serverVars, RecordsCharged, CallbackTypeOK,
      RowShape
  <2>5. OwnAccounted'
    BY <1>11 DEF CallbackAuth, Step, Is, history, serverVars, OwnAccounted, CallbackTypeOK,
      PolicyShape, RowShape
  <2>6. BeforeToken'
    BY <1>11 DEF CallbackAuth, Step, Is, history, serverVars, BeforeToken, CallbackTypeOK,
      PolicyShape
  <2>7. OwnIsFinal'
    BY <1>11 DEF CallbackAuth, Step, Is, history, serverVars, OwnIsFinal, CallbackTypeOK,
      PolicyShape
  <2>8. CheckedIsCertain'
    BY <1>11 DEF CallbackAuth, Step, Is, history, serverVars, CheckedIsCertain, CallbackTypeOK,
      Certain, OneDriveSizeFits, OwnIsFinal, ByVendor, PolicyShape
  <2>9. PromotedIsUploaded'
    BY <1>11 DEF CallbackAuth, Step, Is, history, serverVars, PromotedIsUploaded, CallbackTypeOK,
      Certain, CheckedIsCertain, OneDriveSizeFits, PolicyShape, RowShape, OwnIsFinal
  <2> QED BY <2>1, <2>2, <2>3, <2>4, <2>5, <2>6, <2>7, <2>8, <2>9
<1>12. ASSUME NEW d \in Deliveries, CallbackAuthFails(d) PROVE CallbackIndInv'
  <2>1. CallbackTypeOK'
    BY <1>12 DEF CallbackAuthFails, Refused, history, serverVars, CallbackTypeOK
  <2>2. RowShape'
    BY <1>12 DEF CallbackAuthFails, Refused, history, serverVars, RowShape, CallbackTypeOK,
      PolicyShape
  <2>3. PolicyShape'
    BY <1>12 DEF CallbackAuthFails, Refused, history, serverVars, PolicyShape, CallbackTypeOK, Is
  <2>4. RecordsCharged'
    BY <1>12 DEF CallbackAuthFails, Refused, history, serverVars, RecordsCharged, CallbackTypeOK,
      RowShape
  <2>5. OwnAccounted'
    BY <1>12 DEF CallbackAuthFails, Refused, history, serverVars, OwnAccounted, CallbackTypeOK,
      PolicyShape, RowShape
  <2>6. BeforeToken'
    BY <1>12 DEF CallbackAuthFails, Refused, history, serverVars, BeforeToken, CallbackTypeOK,
      PolicyShape
  <2>7. OwnIsFinal'
    BY <1>12 DEF CallbackAuthFails, Refused, history, serverVars, OwnIsFinal, CallbackTypeOK,
      PolicyShape, Is
  <2>8. CheckedIsCertain'
    BY <1>12 DEF CallbackAuthFails, Refused, history, serverVars, CheckedIsCertain, CallbackTypeOK,
      Certain, OneDriveSizeFits, OwnIsFinal, ByVendor, PolicyShape, Is
  <2>9. PromotedIsUploaded'
    BY <1>12 DEF CallbackAuthFails, Refused, history, serverVars, PromotedIsUploaded,
      CallbackTypeOK, Certain, CheckedIsCertain, OneDriveSizeFits, PolicyShape, Is, RowShape,
      OwnIsFinal
  <2> QED BY <2>1, <2>2, <2>3, <2>4, <2>5, <2>6, <2>7, <2>8, <2>9
<1>13. ASSUME NEW d \in Deliveries, PreProcess(d) PROVE CallbackIndInv'
  <2>a. UNCHANGED <<policy, creating, row, cached, upload, monitor, told, deletion, used, condemned, late>>
    BY <1>13 DEF PreProcess, history
  <2>b. /\ callback[d].at = "authentic"
        /\ \E at \in {"checked", "refused"} : callback' = [callback EXCEPT ![d].at = at] /\ (at = "checked" /\ ~condemned => Certain /\ object' = object)
        /\ object' = object \/ (object' = Nothing /\ Is("onedrive") /\ ~OneDriveSizeFits(object.size))
    <3>1. CASE OneDrivePreProcess(d)
      <4>1. creating = "done" /\ policy.kind = "onedrive"
        BY <3>1 DEF OneDrivePreProcess, PolicyShape, Is
      <4>2. object = Nothing \/ object.own
        BY <4>1 DEF OwnIsFinal, Is
      <4>3. CASE object # Nothing /\ OneDriveSizeFits(object.size)
        BY <3>1, <4>1, <4>2, <4>3 DEF OneDrivePreProcess, Certain
      <4>4. CASE ~(object # Nothing /\ OneDriveSizeFits(object.size))
        BY <3>1, <4>4 DEF OneDrivePreProcess
      <4> QED BY <4>3, <4>4
    <3>2. CASE COSPreProcess(d)
      <4>1. CASE object.size = Size /\ object.own
        BY <3>2, <4>1 DEF COSPreProcess, Certain, OneDriveSizeFits
      <4>2. CASE ~(object.size = Size /\ object.own)
        BY <3>2, <4>2 DEF COSPreProcess
      <4> QED BY <4>1, <4>2
    <3>3. CASE S3PreProcess(d)
      <4>1. CASE object.size = Size
        <5>1. creating = "done" /\ object # Nothing
          BY <3>3, <4>1 DEF S3PreProcess, PolicyShape, Nothing
        <5>2. object.own
          BY <3>3, <5>1 DEF S3PreProcess, OwnIsFinal, Is
        <5> QED BY <3>3, <4>1, <5>2 DEF S3PreProcess, Certain, OneDriveSizeFits
      <4>2. CASE object.size # Size
        BY <3>3, <4>2 DEF S3PreProcess
      <4> QED BY <4>1, <4>2
    <3>4. CASE NoPreProcess(d)
      <4>1. ~condemned => object.own
        BY <3>4 DEF NoPreProcess, Step, CheckedIsCertain
      <4>2. ~condemned => Certain
        BY <3>4, <4>1 DEF NoPreProcess, ByVendor, OwnIsFinal, Is, Certain, OneDriveSizeFits
      <4> QED BY <3>4, <4>2 DEF NoPreProcess, Step
    <3> QED BY <1>13, <3>1, <3>2, <3>3, <3>4 DEF PreProcess
  <2>c. PICK at \in {"checked", "refused"} : /\ callback' = [callback EXCEPT ![d].at = at]
                                             /\ at = "checked" /\ ~condemned => Certain /\ object' = object
    BY <2>b
  <2>d. /\ \A e \in Deliveries : e # d => callback'[e] = callback[e]
        /\ callback'[d].at = at
        /\ callback' \in [Deliveries -> [at : {"none", "got", "admitted", "authentic", "checked", "found", "charged", "done", "refused"}, size : {0, Size}, used : Int]]
    BY <2>c DEF CallbackTypeOK
  <2>e. ~Nothing.own /\ Nothing \in [size : Sizes \cup {-1, 0}, own : BOOLEAN]
    BY DEF Nothing
  <2>f. ~condemned /\ Certain /\ ~(policy.kind \in {"oss", "qiniu"}) => object' = object
    BY <2>b DEF Certain
  <2>g. ~condemned /\ object' # object => Is("onedrive") /\ ~Certain /\ ~ByVendor
    BY <2>b DEF Certain, Is, ByVendor
  <2>1. CallbackTypeOK'
    BY <2>a, <2>b, <2>c, <2>d, <2>e, <2>g DEF CallbackTypeOK
  <2>2. RowShape'
    BY <2>a, <2>b, <2>c, <2>d, <2>e, <2>g DEF RowShape, CallbackTypeOK, PolicyShape
  <2>3. PolicyShape'
    BY <2>a, <2>b, <2>c, <2>d, <2>e, <2>g DEF PolicyShape, CallbackTypeOK, Is
  <2>4. RecordsCharged'
    BY <2>a, <2>b, <2>c, <2>d, <2>e, <2>g DEF RecordsCharged, CallbackTypeOK, RowShape
  <2>5. OwnAccounted'
    BY <2>a, <2>b, <2>c, <2>d, <2>e, <2>g DEF OwnAccounted, CallbackTypeOK, PolicyShape, RowShape
  <2>6. BeforeToken'
    BY <2>a, <2>b, <2>c, <2>d, <2>e, <2>g DEF BeforeToken, CallbackTypeOK, PolicyShape
  <2>7. OwnIsFinal'
    BY <2>a, <2>b, <2>c, <2>d, <2>e, <2>g DEF OwnIsFinal, CallbackTypeOK, PolicyShape, Is
  <2>8. CheckedIsCertain'
    <3> SUFFICES ASSUME ~condemned, NEW e \in Deliveries
                 PROVE  /\ callback'[e].at \in {"checked", "found", "charged", "done"} => Certain'
                        /\ ByVendor /\ callback'[e].at # "none" => object'.own
      BY <2>a DEF CheckedIsCertain, ByVendor
    <3>1. object' = object => (Certain' <=> Certain)
      BY <2>a DEF Certain, OneDriveSizeFits
    <3>2. callback'[e].at \in {"checked", "found", "charged", "done"} => Certain /\ object' = object
      BY <2>c, <2>d, <2>g DEF CheckedIsCertain
    <3>3. ByVendor /\ callback'[e].at # "none" => object.own
      BY <2>b, <2>d DEF CheckedIsCertain
    <3> QED BY <2>g, <3>1, <3>2, <3>3
  <2>9. PromotedIsUploaded'
    <3>1. CASE row.state = "file" /\ ~condemned
      <4>1. Certain
        BY <3>1 DEF PromotedIsUploaded, Certain
      <4>2. object' = object
        BY <2>g, <3>1, <4>1
      <4> QED BY <2>a, <3>1, <4>1, <4>2 DEF PromotedIsUploaded, Certain, OneDriveSizeFits
    <3>2. CASE ~(row.state = "file" /\ ~condemned)
      BY <2>a, <3>2 DEF PromotedIsUploaded
    <3> QED BY <3>1, <3>2
  <2> QED BY <2>1, <2>2, <2>3, <2>4, <2>5, <2>6, <2>7, <2>8, <2>9
<1>14. ASSUME NEW d \in Deliveries, NEW active \in BOOLEAN, DropSession(d, active) PROVE CallbackIndInv'
  <2>1. CallbackTypeOK'
    <3>1. UNCHANGED <<creating, row, object, upload, monitor, told, deletion, used>>
      BY <1>14 DEF DropSession
    <3>2. cached' \in BOOLEAN
      BY <1>14 DEF DropSession
    <3>3. callback' \in [Deliveries -> [at : {"none", "got", "admitted", "authentic", "checked", "found", "charged", "done", "refused"}, size : {0, Size}, used : Int]]
      <4>1. callback[d] \in [at : {"none", "got", "admitted", "authentic", "checked", "found", "charged", "done", "refused"}, size : {0, Size}, used : Int] /\ used \in Int
        BY DEF CallbackTypeOK
      <4> DEFINE at == IF active THEN "admitted" ELSE "refused"
                 u == IF policy.withSize THEN 0 ELSE used
      <4>2. at \in {"admitted", "refused"} /\ u \in Int /\ callback' = [callback EXCEPT ![d] = [callback[d] EXCEPT !.at = at, !.used = u]]
        <5>1. callback' = [callback EXCEPT ![d].at = at, ![d].used = u]
          BY <1>14 DEF DropSession
        <5>2. at \in {"admitted", "refused"} /\ u \in Int
          BY <4>1
        <5> HIDE DEF at, u
        <5> QED BY <5>1, <5>2 DEF CallbackTypeOK
      <4> HIDE DEF at, u
      <4>3. [callback[d] EXCEPT !.at = at, !.used = u] \in [at : {"none", "got", "admitted", "authentic", "checked", "found", "charged", "done", "refused"}, size : {0, Size}, used : Int]
        BY <4>1, <4>2
      <4> QED BY <4>2, <4>3 DEF CallbackTypeOK
    <3> QED BY <3>1, <3>2, <3>3 DEF CallbackTypeOK
  <2>2. RowShape'
    BY <1>14 DEF DropSession, history, serverVars, RowShape, CallbackTypeOK, PolicyShape
  <2>3. PolicyShape'
    BY <1>14 DEF DropSession, history, serverVars, PolicyShape, CallbackTypeOK, Is
  <2>4. RecordsCharged'
    BY <1>14 DEF DropSession, history, serverVars, RecordsCharged, CallbackTypeOK, RowShape
  <2>5. OwnAccounted'
    BY <1>14 DEF DropSession, history, serverVars, OwnAccounted, CallbackTypeOK, PolicyShape,
      RowShape
  <2>6. BeforeToken'
    BY <1>14 DEF DropSession, history, serverVars, BeforeToken, CallbackTypeOK, PolicyShape
  <2>7. OwnIsFinal'
    BY <1>14 DEF DropSession, history, serverVars, OwnIsFinal, CallbackTypeOK, PolicyShape, Is
  <2>8. CheckedIsCertain'
    BY <1>14 DEF DropSession, history, serverVars, CheckedIsCertain, CallbackTypeOK, Certain,
      OneDriveSizeFits, OwnIsFinal, ByVendor, PolicyShape, Is
  <2>9. PromotedIsUploaded'
    BY <1>14 DEF DropSession, history, serverVars, PromotedIsUploaded, CallbackTypeOK, Certain,
      CheckedIsCertain, OneDriveSizeFits, PolicyShape, Is, RowShape, OwnIsFinal
  <2> QED BY <2>1, <2>2, <2>3, <2>4, <2>5, <2>6, <2>7, <2>8, <2>9
<1>15. ASSUME NEW d \in Deliveries, GetFilesByUploadSession(d) PROVE CallbackIndInv'
  <2>1. CallbackTypeOK'
    <3>1. UNCHANGED <<creating, row, cached, object, upload, monitor, told, deletion, used>>
      BY <1>15 DEF GetFilesByUploadSession
    <3>2. callback' \in [Deliveries -> [at : {"none", "got", "admitted", "authentic", "checked", "found", "charged", "done", "refused"}, size : {0, Size}, used : Int]]
      <4>1. callback[d] \in [at : {"none", "got", "admitted", "authentic", "checked", "found", "charged", "done", "refused"}, size : {0, Size}, used : Int] /\ row.size \in {0, Size}
        BY DEF CallbackTypeOK
      <4>2. PICK at \in {"found", "refused"} : callback' = [callback EXCEPT ![d] = [callback[d] EXCEPT !.at = at, !.size = row.size]]
        BY <1>15, <4>1 DEF GetFilesByUploadSession, CallbackTypeOK
      <4>3. [callback[d] EXCEPT !.at = at, !.size = row.size] \in [at : {"none", "got", "admitted", "authentic", "checked", "found", "charged", "done", "refused"}, size : {0, Size}, used : Int]
        BY <4>1
      <4> QED BY <4>2, <4>3 DEF CallbackTypeOK
    <3> QED BY <3>1, <3>2 DEF CallbackTypeOK
  <2>2. RowShape'
    BY <1>15 DEF GetFilesByUploadSession, history, serverVars, RowShape, CallbackTypeOK, PolicyShape
  <2>3. PolicyShape'
    BY <1>15 DEF GetFilesByUploadSession, history, serverVars, PolicyShape, CallbackTypeOK, Is
  <2>4. RecordsCharged'
    BY <1>15 DEF GetFilesByUploadSession, history, serverVars, RecordsCharged, CallbackTypeOK,
      RowShape
  <2>5. OwnAccounted'
    BY <1>15 DEF GetFilesByUploadSession, history, serverVars, OwnAccounted, CallbackTypeOK,
      PolicyShape, RowShape
  <2>6. BeforeToken'
    BY <1>15 DEF GetFilesByUploadSession, history, serverVars, BeforeToken, CallbackTypeOK,
      PolicyShape
  <2>7. OwnIsFinal'
    BY <1>15 DEF GetFilesByUploadSession, history, serverVars, OwnIsFinal, CallbackTypeOK,
      PolicyShape, Is
  <2>8. CheckedIsCertain'
    BY <1>15 DEF GetFilesByUploadSession, history, serverVars, CheckedIsCertain, CallbackTypeOK,
      Certain, OneDriveSizeFits, OwnIsFinal, ByVendor, PolicyShape, Is
  <2>9. PromotedIsUploaded'
    BY <1>15 DEF GetFilesByUploadSession, history, serverVars, PromotedIsUploaded, CallbackTypeOK,
      Certain, CheckedIsCertain, OneDriveSizeFits, PolicyShape, Is, RowShape, OwnIsFinal
  <2> QED BY <2>1, <2>2, <2>3, <2>4, <2>5, <2>6, <2>7, <2>8, <2>9
<1>16. ASSUME NEW d \in Deliveries, ChargePlaceholder(d) PROVE CallbackIndInv'
  <2>1. CallbackTypeOK'
    <3>1. UNCHANGED <<creating, cached, upload, monitor, told, deletion>>
      BY <1>16 DEF ChargePlaceholder
    <3>2. callback' \in [Deliveries -> [at : {"none", "got", "admitted", "authentic", "checked", "found", "charged", "done", "refused"}, size : {0, Size}, used : Int]]
      BY <1>16 DEF ChargePlaceholder, Step, Refused, CallbackTypeOK
    <3>3. object' = object \/ object' = Nothing
      BY <1>16 DEF ChargePlaceholder, HookDeleteTempFile
    <3>4. Nothing \in [size : Sizes \cup {-1, 0}, own : BOOLEAN]
      BY DEF Nothing
    <3>5. row' \in [state : {"none", "placeholder", "file"}, size : {0, Size}]
      <4>1. row' = row \/ row' = [row EXCEPT !.size = Size]
        BY <1>16 DEF ChargePlaceholder, HookChunkUploaded, UpdateSize
      <4> QED BY <4>1 DEF CallbackTypeOK
    <3>6. used' \in Int
      <4>1. callback[d].size \in Int /\ used \in Int /\ Size \in Int
        BY DEF CallbackTypeOK
      <4> QED BY <1>16, <4>1 DEF ChargePlaceholder, HookChunkUploaded, UpdateSize
    <3> QED BY <3>1, <3>2, <3>3, <3>4, <3>5, <3>6 DEF CallbackTypeOK
  <2>2. RowShape'
    BY <1>16 DEF ChargePlaceholder, Step, Refused, HookDeleteTempFile, HookChunkUploaded,
      UpdateSize, Nothing, RowShape, CallbackTypeOK, PolicyShape
  <2>3. PolicyShape'
    BY <1>16 DEF ChargePlaceholder, Step, Refused, HookDeleteTempFile, HookChunkUploaded,
      UpdateSize, Nothing, PolicyShape, CallbackTypeOK, Is
  <2>4. RecordsCharged'
    BY <1>16 DEF ChargePlaceholder, Step, Refused, HookDeleteTempFile, HookChunkUploaded,
      UpdateSize, Nothing, RecordsCharged, CallbackTypeOK, RowShape
  <2>5. OwnAccounted'
    BY <1>16 DEF ChargePlaceholder, Step, Refused, HookDeleteTempFile, HookChunkUploaded,
      UpdateSize, Nothing, OwnAccounted, CallbackTypeOK, PolicyShape, RowShape
  <2>6. BeforeToken'
    BY <1>16 DEF ChargePlaceholder, Step, Refused, HookDeleteTempFile, HookChunkUploaded,
      UpdateSize, Nothing, BeforeToken, CallbackTypeOK, PolicyShape
  <2>7. OwnIsFinal'
    BY <1>16 DEF ChargePlaceholder, Step, Refused, HookDeleteTempFile, HookChunkUploaded,
      UpdateSize, Nothing, OwnIsFinal, CallbackTypeOK, PolicyShape, Is
  <2>8. CheckedIsCertain'
    BY <1>16 DEF ChargePlaceholder, Step, Refused, HookDeleteTempFile, HookChunkUploaded,
      UpdateSize, Nothing, CheckedIsCertain, CallbackTypeOK, Certain, OneDriveSizeFits, OwnIsFinal,
      ByVendor, PolicyShape, Is
  <2>9. PromotedIsUploaded'
    BY <1>16 DEF ChargePlaceholder, Step, Refused, HookDeleteTempFile, HookChunkUploaded,
      UpdateSize, Nothing, PromotedIsUploaded, CallbackTypeOK, Certain, CheckedIsCertain,
      OneDriveSizeFits, PolicyShape, Is, RowShape, OwnIsFinal
  <2> QED BY <2>1, <2>2, <2>3, <2>4, <2>5, <2>6, <2>7, <2>8, <2>9
<1>17. ASSUME NEW d \in Deliveries, HookPopPlaceholderToFile(d) PROVE CallbackIndInv'
  <2>1. CallbackTypeOK'
    BY <1>17 DEF HookPopPlaceholderToFile, Step, PopChunkToFile, history, serverVars, CallbackTypeOK
  <2>2. RowShape'
    BY <1>17 DEF HookPopPlaceholderToFile, Step, PopChunkToFile, history, serverVars, RowShape,
      CallbackTypeOK, PolicyShape
  <2>3. PolicyShape'
    BY <1>17 DEF HookPopPlaceholderToFile, Step, PopChunkToFile, history, serverVars, PolicyShape,
      CallbackTypeOK, Is
  <2>4. RecordsCharged'
    BY <1>17 DEF HookPopPlaceholderToFile, Step, PopChunkToFile, history, serverVars,
      RecordsCharged, CallbackTypeOK, RowShape
  <2>5. OwnAccounted'
    BY <1>17 DEF HookPopPlaceholderToFile, Step, PopChunkToFile, history, serverVars, OwnAccounted,
      CallbackTypeOK, PolicyShape, RowShape
  <2>6. BeforeToken'
    BY <1>17 DEF HookPopPlaceholderToFile, Step, PopChunkToFile, history, serverVars, BeforeToken,
      CallbackTypeOK, PolicyShape
  <2>7. OwnIsFinal'
    BY <1>17 DEF HookPopPlaceholderToFile, Step, PopChunkToFile, history, serverVars, OwnIsFinal,
      CallbackTypeOK, PolicyShape, Is
  <2>8. CheckedIsCertain'
    BY <1>17 DEF HookPopPlaceholderToFile, Step, PopChunkToFile, history, serverVars,
      CheckedIsCertain, CallbackTypeOK, Certain, OneDriveSizeFits, OwnIsFinal, ByVendor,
      PolicyShape, Is
  <2>9. PromotedIsUploaded'
    BY <1>17 DEF HookPopPlaceholderToFile, Step, PopChunkToFile, history, serverVars,
      PromotedIsUploaded, CallbackTypeOK, Certain, CheckedIsCertain, OneDriveSizeFits, PolicyShape,
      Is, RowShape, OwnIsFinal
  <2> QED BY <2>1, <2>2, <2>3, <2>4, <2>5, <2>6, <2>7, <2>8, <2>9
<1>18. ASSUME UserDeletes PROVE CallbackIndInv'
  <2>1. CallbackTypeOK'
    BY <1>18 DEF UserDeletes, BeginDelete, CallbackTypeOK
  <2>2. RowShape'
    BY <1>18 DEF UserDeletes, BeginDelete, RowShape, CallbackTypeOK, PolicyShape
  <2>3. PolicyShape'
    BY <1>18 DEF UserDeletes, BeginDelete, PolicyShape, CallbackTypeOK, Is
  <2>4. RecordsCharged'
    BY <1>18 DEF UserDeletes, BeginDelete, RecordsCharged, CallbackTypeOK, RowShape
  <2>5. OwnAccounted'
    BY <1>18 DEF UserDeletes, BeginDelete, OwnAccounted, CallbackTypeOK, PolicyShape, RowShape
  <2>6. BeforeToken'
    BY <1>18 DEF UserDeletes, BeginDelete, BeforeToken, CallbackTypeOK, PolicyShape
  <2>7. OwnIsFinal'
    BY <1>18 DEF UserDeletes, BeginDelete, OwnIsFinal, CallbackTypeOK, PolicyShape, Is
  <2>8. CheckedIsCertain'
    BY <1>18 DEF UserDeletes, BeginDelete, CheckedIsCertain, CallbackTypeOK, Certain,
      OneDriveSizeFits, OwnIsFinal, ByVendor, PolicyShape, Is
  <2>9. PromotedIsUploaded'
    BY <1>18 DEF UserDeletes, BeginDelete, PromotedIsUploaded, CallbackTypeOK, Certain,
      CheckedIsCertain, OneDriveSizeFits, PolicyShape, Is, RowShape, OwnIsFinal
  <2> QED BY <2>1, <2>2, <2>3, <2>4, <2>5, <2>6, <2>7, <2>8, <2>9
<1>19. ASSUME uploadSessionCollect PROVE CallbackIndInv'
  <2>1. CallbackTypeOK'
    BY <1>19 DEF uploadSessionCollect, BeginDelete, CallbackTypeOK
  <2>2. RowShape'
    BY <1>19 DEF uploadSessionCollect, BeginDelete, RowShape, CallbackTypeOK, PolicyShape
  <2>3. PolicyShape'
    BY <1>19 DEF uploadSessionCollect, BeginDelete, PolicyShape, CallbackTypeOK, Is
  <2>4. RecordsCharged'
    BY <1>19 DEF uploadSessionCollect, BeginDelete, RecordsCharged, CallbackTypeOK, RowShape
  <2>5. OwnAccounted'
    BY <1>19 DEF uploadSessionCollect, BeginDelete, OwnAccounted, CallbackTypeOK, PolicyShape,
      RowShape
  <2>6. BeforeToken'
    BY <1>19 DEF uploadSessionCollect, BeginDelete, BeforeToken, CallbackTypeOK, PolicyShape
  <2>7. OwnIsFinal'
    BY <1>19 DEF uploadSessionCollect, BeginDelete, OwnIsFinal, CallbackTypeOK, PolicyShape, Is
  <2>8. CheckedIsCertain'
    BY <1>19 DEF uploadSessionCollect, BeginDelete, CheckedIsCertain, CallbackTypeOK, Certain,
      OneDriveSizeFits, OwnIsFinal, ByVendor, PolicyShape, Is
  <2>9. PromotedIsUploaded'
    BY <1>19 DEF uploadSessionCollect, BeginDelete, PromotedIsUploaded, CallbackTypeOK, Certain,
      CheckedIsCertain, OneDriveSizeFits, PolicyShape, Is, RowShape, OwnIsFinal
  <2> QED BY <2>1, <2>2, <2>3, <2>4, <2>5, <2>6, <2>7, <2>8, <2>9
<1>20. ASSUME FindSessions PROVE CallbackIndInv'
  <2>1. CallbackTypeOK'
    <3>1. UNCHANGED <<creating, row, cached, object, upload, callback, monitor, told, used>>
      BY <1>20 DEF FindSessions
    <3>2. deletion' \in [at : {"none", "listed", "cancel", "object", "record"}, size : {0, Size}, sessions : BOOLEAN]
      <4>1. ASSUME NEW s \in BOOLEAN PROVE [deletion EXCEPT !.at = "cancel", !.sessions = s] \in [at : {"none", "listed", "cancel", "object", "record"}, size : {0, Size}, sessions : BOOLEAN]
        <5>1. CASE s = TRUE
          BY <5>1 DEF CallbackTypeOK
        <5>2. CASE s = FALSE
          BY <5>2 DEF CallbackTypeOK
        <5> QED BY <5>1, <5>2
      <4>2. deletion' = [deletion EXCEPT !.at = "cancel", !.sessions = cached] /\ cached \in BOOLEAN
        BY <1>20 DEF FindSessions, CallbackTypeOK
      <4> QED BY <4>1, <4>2
    <3> QED BY <3>1, <3>2 DEF CallbackTypeOK
  <2>2. RowShape'
    BY <1>20 DEF FindSessions, history, serverVars, RowShape, CallbackTypeOK, PolicyShape
  <2>3. PolicyShape'
    BY <1>20 DEF FindSessions, history, serverVars, PolicyShape, CallbackTypeOK, Is
  <2>4. RecordsCharged'
    BY <1>20 DEF FindSessions, history, serverVars, RecordsCharged, CallbackTypeOK, RowShape
  <2>5. OwnAccounted'
    BY <1>20 DEF FindSessions, history, serverVars, OwnAccounted, CallbackTypeOK, PolicyShape,
      RowShape
  <2>6. BeforeToken'
    BY <1>20 DEF FindSessions, history, serverVars, BeforeToken, CallbackTypeOK, PolicyShape
  <2>7. OwnIsFinal'
    BY <1>20 DEF FindSessions, history, serverVars, OwnIsFinal, CallbackTypeOK, PolicyShape, Is
  <2>8. CheckedIsCertain'
    BY <1>20 DEF FindSessions, history, serverVars, CheckedIsCertain, CallbackTypeOK, Certain,
      OneDriveSizeFits, OwnIsFinal, ByVendor, PolicyShape, Is
  <2>9. PromotedIsUploaded'
    BY <1>20 DEF FindSessions, history, serverVars, PromotedIsUploaded, CallbackTypeOK, Certain,
      CheckedIsCertain, OneDriveSizeFits, PolicyShape, Is, RowShape, OwnIsFinal
  <2> QED BY <2>1, <2>2, <2>3, <2>4, <2>5, <2>6, <2>7, <2>8, <2>9
<1>21. ASSUME CancelUpload PROVE CallbackIndInv'
  <2>a. /\ UNCHANGED <<policy, creating, row, callback, monitor, told, used, condemned, late>> /\ deletion.at = "cancel"
        /\ deletion' = [deletion EXCEPT !.at = "object"] /\ (cached' = FALSE \/ cached' = cached)
        /\ upload' = upload \/ (upload' = "closed" /\ upload \in {"open", "started"})
        /\ object' = object \/ object' = Nothing
    <3>1. CASE deletion.sessions /\ CancelToken
      BY <1>21, <3>1 DEF CancelUpload, history, CancelToken, ossCancelToken, s3CancelToken,
        qiniuCancelToken, onedriveCancelToken,
                      DeleteUploadSession, remoteCancelToken, SlaveDelete, cosCancelToken, upyunCancelToken, Abort
    <3>2. CASE deletion.sessions /\ CancelTokenFails
      BY <1>21, <3>2 DEF CancelUpload, history, CancelTokenFails
    <3>3. CASE ~deletion.sessions
      BY <1>21, <3>3 DEF CancelUpload, history
    <3> QED BY <1>21, <3>1, <3>2, <3>3 DEF CancelUpload
  <2>b. ~Nothing.own /\ Nothing \in [size : Sizes \cup {-1, 0}, own : BOOLEAN]
    BY DEF Nothing
  <2>c. condemned
    BY <2>a DEF PolicyShape
  <2>d. deletion'.at = "object" /\ deletion' \in [at : {"none", "listed", "cancel", "object", "record"}, size : {0, Size}, sessions : BOOLEAN]
    BY <2>a DEF CallbackTypeOK
  <2>1. CallbackTypeOK'
    <3>1. cached' \in BOOLEAN
      BY <2>a DEF CallbackTypeOK
    <3>2. UNCHANGED <<creating, row, callback, monitor, told, used>> /\ upload' \in {upload, "closed"} /\ (object' = object \/ object' = Nothing)
      BY <2>a
    <3> QED BY <2>b, <2>d, <3>1, <3>2 DEF CallbackTypeOK
  <2>2. RowShape'
    BY <2>a, <2>b, <2>c, <2>d DEF RowShape, CallbackTypeOK, PolicyShape
  <2>3. PolicyShape'
    BY <2>a, <2>b, <2>c, <2>d DEF PolicyShape, CallbackTypeOK, Is
  <2>4. RecordsCharged'
    BY <2>a, <2>b, <2>c, <2>d DEF RecordsCharged, CallbackTypeOK, RowShape
  <2>5. OwnAccounted'
    BY <2>a, <2>b, <2>c, <2>d DEF OwnAccounted, CallbackTypeOK, PolicyShape, RowShape
  <2>6. BeforeToken'
    BY <2>a, <2>b, <2>c, <2>d DEF BeforeToken, CallbackTypeOK, PolicyShape
  <2>7. OwnIsFinal'
    BY <2>a, <2>b, <2>c, <2>d DEF OwnIsFinal, CallbackTypeOK, PolicyShape, Is
  <2>8. CheckedIsCertain'
    BY <2>a, <2>b, <2>c, <2>d DEF CheckedIsCertain, CallbackTypeOK, Certain, OneDriveSizeFits,
      OwnIsFinal, ByVendor, PolicyShape, Is
  <2>9. PromotedIsUploaded'
    BY <2>a, <2>b, <2>c, <2>d DEF PromotedIsUploaded, CallbackTypeOK, Certain, CheckedIsCertain,
      OneDriveSizeFits, PolicyShape, Is, RowShape, OwnIsFinal
  <2> QED BY <2>1, <2>2, <2>3, <2>4, <2>5, <2>6, <2>7, <2>8, <2>9
<1>22. ASSUME DeleteObject PROVE CallbackIndInv'
  <2>1. CallbackTypeOK'
    <3>1. UNCHANGED <<creating, row, cached, upload, callback, monitor, told, used>>
      BY <1>22 DEF DeleteObject
    <3>2. object' = object \/ object' = Nothing
      BY <1>22 DEF DeleteObject
    <3>3. Nothing \in [size : Sizes \cup {-1, 0}, own : BOOLEAN]
      BY DEF Nothing
    <3>4. deletion' \in [at : {"none", "listed", "cancel", "object", "record"}, size : {0, Size}, sessions : BOOLEAN]
      <4>1. deletion' = [deletion EXCEPT !.at = "record"] \/ deletion' = Resting
        BY <1>22 DEF DeleteObject
      <4>2. Resting \in [at : {"none", "listed", "cancel", "object", "record"}, size : {0, Size}, sessions : BOOLEAN]
        BY DEF Resting
      <4>3. [deletion EXCEPT !.at = "record"] \in [at : {"none", "listed", "cancel", "object", "record"}, size : {0, Size}, sessions : BOOLEAN]
        BY DEF CallbackTypeOK
      <4> QED BY <4>1, <4>2, <4>3
    <3> QED BY <3>1, <3>2, <3>3, <3>4 DEF CallbackTypeOK
  <2>2. RowShape'
    BY <1>22 DEF DeleteObject, Nothing, Resting, history, serverVars, RowShape, CallbackTypeOK,
      PolicyShape
  <2>3. PolicyShape'
    BY <1>22 DEF DeleteObject, Nothing, Resting, history, serverVars, PolicyShape, CallbackTypeOK,
      Is
  <2>4. RecordsCharged'
    BY <1>22 DEF DeleteObject, Nothing, Resting, history, serverVars, RecordsCharged,
      CallbackTypeOK, RowShape
  <2>5. OwnAccounted'
    BY <1>22 DEF DeleteObject, Nothing, Resting, history, serverVars, OwnAccounted, CallbackTypeOK,
      PolicyShape, RowShape
  <2>6. BeforeToken'
    BY <1>22 DEF DeleteObject, Nothing, Resting, history, serverVars, BeforeToken, CallbackTypeOK,
      PolicyShape
  <2>7. OwnIsFinal'
    BY <1>22 DEF DeleteObject, Nothing, Resting, history, serverVars, OwnIsFinal, CallbackTypeOK,
      PolicyShape, Is
  <2>8. CheckedIsCertain'
    BY <1>22 DEF DeleteObject, Nothing, Resting, history, serverVars, CheckedIsCertain,
      CallbackTypeOK, Certain, OneDriveSizeFits, OwnIsFinal, ByVendor, PolicyShape, Is
  <2>9. PromotedIsUploaded'
    BY <1>22 DEF DeleteObject, Nothing, Resting, history, serverVars, PromotedIsUploaded,
      CallbackTypeOK, Certain, CheckedIsCertain, OneDriveSizeFits, PolicyShape, Is, RowShape,
      OwnIsFinal
  <2> QED BY <2>1, <2>2, <2>3, <2>4, <2>5, <2>6, <2>7, <2>8, <2>9
<1>23. ASSUME DeleteFiles PROVE CallbackIndInv'
  <2>1. CallbackTypeOK'
    BY <1>23 DEF DeleteFiles, DirtySize, Resting, NoRow, history, serverVars, CallbackTypeOK
  <2>2. RowShape'
    BY <1>23 DEF DeleteFiles, DirtySize, Resting, NoRow, history, serverVars, RowShape,
      CallbackTypeOK, PolicyShape
  <2>3. PolicyShape'
    BY <1>23 DEF DeleteFiles, DirtySize, Resting, NoRow, history, serverVars, PolicyShape,
      CallbackTypeOK, Is
  <2>4. RecordsCharged'
    BY <1>23 DEF DeleteFiles, DirtySize, Resting, NoRow, history, serverVars, RecordsCharged,
      CallbackTypeOK, RowShape
  <2>5. OwnAccounted'
    BY <1>23 DEF DeleteFiles, DirtySize, Resting, NoRow, history, serverVars, OwnAccounted,
      CallbackTypeOK, PolicyShape, RowShape
  <2>6. BeforeToken'
    BY <1>23 DEF DeleteFiles, DirtySize, Resting, NoRow, history, serverVars, BeforeToken,
      CallbackTypeOK, PolicyShape
  <2>7. OwnIsFinal'
    BY <1>23 DEF DeleteFiles, DirtySize, Resting, NoRow, history, serverVars, OwnIsFinal,
      CallbackTypeOK, PolicyShape, Is
  <2>8. CheckedIsCertain'
    BY <1>23 DEF DeleteFiles, DirtySize, Resting, NoRow, history, serverVars, CheckedIsCertain,
      CallbackTypeOK, Certain, OneDriveSizeFits, OwnIsFinal, ByVendor, PolicyShape, Is
  <2>9. PromotedIsUploaded'
    BY <1>23 DEF DeleteFiles, DirtySize, Resting, NoRow, history, serverVars, PromotedIsUploaded,
      CallbackTypeOK, Certain, CheckedIsCertain, OneDriveSizeFits, PolicyShape, Is, RowShape,
      OwnIsFinal
  <2> QED BY <2>1, <2>2, <2>3, <2>4, <2>5, <2>6, <2>7, <2>8, <2>9
<1>24. ASSUME MonitorTold PROVE CallbackIndInv'
  <2>1. CallbackTypeOK'
    <3>1. told' \in BOOLEAN
      BY <1>24 DEF MonitorTold
    <3>2. monitor' = "ended" /\ UNCHANGED <<creating, row, cached, object, upload, callback, deletion, used>>
      BY <1>24 DEF MonitorTold, serverVars
    <3> QED BY <3>1, <3>2 DEF CallbackTypeOK
  <2>2. RowShape'
    BY <1>24 DEF MonitorTold, history, serverVars, RowShape, CallbackTypeOK, PolicyShape
  <2>3. PolicyShape'
    BY <1>24 DEF MonitorTold, history, serverVars, PolicyShape, CallbackTypeOK, Is
  <2>4. RecordsCharged'
    BY <1>24 DEF MonitorTold, history, serverVars, RecordsCharged, CallbackTypeOK, RowShape
  <2>5. OwnAccounted'
    BY <1>24 DEF MonitorTold, history, serverVars, OwnAccounted, CallbackTypeOK, PolicyShape,
      RowShape
  <2>6. BeforeToken'
    BY <1>24 DEF MonitorTold, history, serverVars, BeforeToken, CallbackTypeOK, PolicyShape
  <2>7. OwnIsFinal'
    BY <1>24 DEF MonitorTold, history, serverVars, OwnIsFinal, CallbackTypeOK, PolicyShape, Is
  <2>8. CheckedIsCertain'
    BY <1>24 DEF MonitorTold, history, serverVars, CheckedIsCertain, CallbackTypeOK, Certain,
      OneDriveSizeFits, OwnIsFinal, ByVendor, PolicyShape, Is
  <2>9. PromotedIsUploaded'
    BY <1>24 DEF MonitorTold, history, serverVars, PromotedIsUploaded, CallbackTypeOK, Certain,
      CheckedIsCertain, OneDriveSizeFits, PolicyShape, Is, RowShape, OwnIsFinal
  <2> QED BY <2>1, <2>2, <2>3, <2>4, <2>5, <2>6, <2>7, <2>8, <2>9
<1>25. ASSUME MonitorCheck PROVE CallbackIndInv'
  <2>1. CallbackTypeOK'
    <3>1. UNCHANGED <<creating, row, cached, callback, told, deletion, used>>
      BY <1>25 DEF MonitorCheck, serverVars
    <3>2. upload' \in {upload, "closed"} /\ monitor' \in {monitor, "ended", "grace"}
      BY <1>25 DEF MonitorCheck, GiveUp
    <3>3. object' = object \/ object' = Own(0)
      BY <1>25 DEF MonitorCheck, GiveUp, EmptyPlaceholder
    <3>4. Own(0) \in [size : Sizes \cup {-1, 0}, own : BOOLEAN]
      BY DEF Own
    <3> QED BY <3>1, <3>2, <3>3, <3>4 DEF CallbackTypeOK
  <2>2. RowShape'
    BY <1>25 DEF MonitorCheck, GiveUp, EmptyPlaceholder, Own, history, serverVars, RowShape,
      CallbackTypeOK, PolicyShape
  <2>3. PolicyShape'
    BY <1>25 DEF MonitorCheck, GiveUp, EmptyPlaceholder, Own, history, serverVars, PolicyShape,
      CallbackTypeOK, Is
  <2>4. RecordsCharged'
    BY <1>25 DEF MonitorCheck, GiveUp, EmptyPlaceholder, Own, history, serverVars, RecordsCharged,
      CallbackTypeOK, RowShape
  <2>5. OwnAccounted'
    BY <1>25 DEF MonitorCheck, GiveUp, EmptyPlaceholder, Own, history, serverVars, OwnAccounted,
      CallbackTypeOK, PolicyShape, RowShape
  <2>6. BeforeToken'
    BY <1>25 DEF MonitorCheck, GiveUp, EmptyPlaceholder, Own, history, serverVars, BeforeToken,
      CallbackTypeOK, PolicyShape
  <2>7. OwnIsFinal'
    BY <1>25 DEF MonitorCheck, GiveUp, EmptyPlaceholder, Own, history, serverVars, OwnIsFinal,
      CallbackTypeOK, PolicyShape, Is
  <2>8. CheckedIsCertain'
    BY <1>25 DEF MonitorCheck, GiveUp, EmptyPlaceholder, Own, history, serverVars, CheckedIsCertain,
      CallbackTypeOK, Certain, OneDriveSizeFits, OwnIsFinal, ByVendor, PolicyShape, Is
  <2>9. PromotedIsUploaded'
    BY <1>25 DEF MonitorCheck, GiveUp, EmptyPlaceholder, Own, history, serverVars,
      PromotedIsUploaded, CallbackTypeOK, Certain, CheckedIsCertain, OneDriveSizeFits, PolicyShape,
      Is, RowShape, OwnIsFinal
  <2> QED BY <2>1, <2>2, <2>3, <2>4, <2>5, <2>6, <2>7, <2>8, <2>9
<1>26. ASSUME MonitorDeletes PROVE CallbackIndInv'
  <2>1. CallbackTypeOK'
    <3>1. cached' \in BOOLEAN
      BY <1>26 DEF MonitorDeletes
    <3>2. monitor' = "ended" /\ UNCHANGED <<creating, row, upload, callback, told, deletion, used>>
      BY <1>26 DEF MonitorDeletes
    <3>3. object' = object \/ object' = Nothing
      BY <1>26 DEF MonitorDeletes
    <3>4. Nothing \in [size : Sizes \cup {-1, 0}, own : BOOLEAN]
      BY DEF Nothing
    <3> QED BY <3>1, <3>2, <3>3, <3>4 DEF CallbackTypeOK
  <2>2. RowShape'
    BY <1>26 DEF MonitorDeletes, Nothing, history, serverVars, RowShape, CallbackTypeOK, PolicyShape
  <2>3. PolicyShape'
    BY <1>26 DEF MonitorDeletes, Nothing, history, serverVars, PolicyShape, CallbackTypeOK, Is
  <2>4. RecordsCharged'
    BY <1>26 DEF MonitorDeletes, Nothing, history, serverVars, RecordsCharged, CallbackTypeOK,
      RowShape
  <2>5. OwnAccounted'
    BY <1>26 DEF MonitorDeletes, Nothing, history, serverVars, OwnAccounted, CallbackTypeOK,
      PolicyShape, RowShape
  <2>6. BeforeToken'
    BY <1>26 DEF MonitorDeletes, Nothing, history, serverVars, BeforeToken, CallbackTypeOK,
      PolicyShape
  <2>7. OwnIsFinal'
    BY <1>26 DEF MonitorDeletes, Nothing, history, serverVars, OwnIsFinal, CallbackTypeOK,
      PolicyShape, Is
  <2>8. CheckedIsCertain'
    BY <1>26 DEF MonitorDeletes, Nothing, history, serverVars, CheckedIsCertain, CallbackTypeOK,
      Certain, OneDriveSizeFits, OwnIsFinal, ByVendor, PolicyShape, Is
  <2>9. PromotedIsUploaded'
    BY <1>26 DEF MonitorDeletes, Nothing, history, serverVars, PromotedIsUploaded, CallbackTypeOK,
      Certain, CheckedIsCertain, OneDriveSizeFits, PolicyShape, Is, RowShape, OwnIsFinal
  <2> QED BY <2>1, <2>2, <2>3, <2>4, <2>5, <2>6, <2>7, <2>8, <2>9
<1>27. CASE UNCHANGED callbackVars
  <2>1. CallbackTypeOK'
    BY <1>27 DEF callbackVars, CallbackTypeOK
  <2>2. RowShape'
    BY <1>27 DEF callbackVars, RowShape
  <2>3. PolicyShape'
    BY <1>27 DEF callbackVars, PolicyShape, Is
  <2>4. RecordsCharged'
    BY <1>27 DEF callbackVars, RecordsCharged
  <2>5. OwnAccounted'
    BY <1>27 DEF callbackVars, OwnAccounted
  <2>6. BeforeToken'
    BY <1>27 DEF callbackVars, BeforeToken
  <2>7. OwnIsFinal'
    BY <1>27 DEF callbackVars, OwnIsFinal, Is
  <2>8. CheckedIsCertain'
    BY <1>27 DEF callbackVars, CheckedIsCertain, Certain, OneDriveSizeFits, ByVendor
  <2>9. PromotedIsUploaded'
    BY <1>27 DEF callbackVars, PromotedIsUploaded, OneDriveSizeFits
  <2> QED BY <2>1, <2>2, <2>3, <2>4, <2>5, <2>6, <2>7, <2>8, <2>9
<1> QED BY <1>1, <1>2, <1>3, <1>4, <1>5, <1>6, <1>7, <1>8, <1>9, <1>10, <1>11, <1>12, <1>13, <1>14,
        <1>15, <1>16, <1>17, <1>18, <1>19, <1>20, <1>21, <1>22, <1>23, <1>24, <1>25, <1>26, <1>27
        DEF CallbackNext

\* It holds before the upload.
LEMMA CallbackInitInv == CallbackInit => CallbackIndInv
<1> SUFFICES ASSUME CallbackInit PROVE CallbackIndInv
  OBVIOUS
<1> USE CallbackAssumption
<1>1. CallbackTypeOK
  <2>1. object \in [size : Sizes \cup {-1, 0}, own : BOOLEAN]
    <3>1. Nothing \in [size : Sizes \cup {-1, 0}, own : BOOLEAN] /\ Stray \in [size : Sizes \cup {-1, 0}, own : BOOLEAN]
      BY DEF Nothing, Stray
    <3> QED BY <3>1 DEF CallbackInit
  <2>2. row \in [state : {"none", "placeholder", "file"}, size : {0, Size}]
    BY DEF CallbackInit, NoRow
  <2>3. cached \in BOOLEAN /\ told \in BOOLEAN
    BY DEF CallbackInit
  <2>4. Waiting \in [at : {"none", "got", "admitted", "authentic", "checked", "found", "charged", "done", "refused"}, size : {0, Size}, used : Int]
    BY DEF Waiting
  <2>5. Resting \in [at : {"none", "listed", "cancel", "object", "record"}, size : {0, Size}, sessions : BOOLEAN]
    BY DEF Resting
  <2> QED BY <2>1, <2>2, <2>3, <2>4, <2>5 DEF CallbackInit, CallbackTypeOK
<1>2. /\ row.state = "none" /\ row.size = 0 /\ monitor = "off" /\ deletion.at = "none" /\ creating = "no" /\ used = 0
      /\ ~object.own /\ \A d \in Deliveries : callback[d].at = "none"
  BY DEF CallbackInit, NoRow, Resting, Waiting, Nothing, Stray
<1> QED BY <1>1, <1>2 DEF CallbackIndInv, RowShape, PolicyShape, RecordsCharged, OwnAccounted,
        BeforeToken, OwnIsFinal, CheckedIsCertain, PromotedIsUploaded

\* The user's storage never falls below the size of the record, and when
\* nothing is under way no content stays without a record, unless it arrived
\* after the deletion (CreateUploadSession, ProcessCallback,
\* DeleteUploadSession): for every number of deliveries and every set of sizes.
THEOREM CallbacksHold == CallbackSpec => []CallbackInv
<1>1. CallbackInit => CallbackIndInv
  BY CallbackInitInv
<1>2. CallbackIndInv /\ [CallbackNext]_callbackVars => CallbackIndInv'
  BY CallbackStep
<1>3. CallbackIndInv => CallbackInv
  BY DEF CallbackIndInv, CallbackInv, NothingLeftBehind, OwnAccounted
<1> QED BY <1>1, <1>2, <1>3, PTL DEF CallbackSpec

\* A record that a callback has promoted to a file stands for the object its
\* client uploaded in this session, of the declared size where the size is
\* compared at all (OSS and Qiniu report one that nothing compares), unless
\* something had set about removing the upload: whichever vendor calls back,
\* how often, and however its callbacks overlap (ProcessCallback, the
\* PreProcess of each vendor): for every number of deliveries and every set of
\* sizes.
THEOREM PromotedContent == CallbackSpec => []PromotedIsUploaded
<1>1. CallbackInit => CallbackIndInv
  BY CallbackInitInv
<1>2. CallbackIndInv /\ [CallbackNext]_callbackVars => CallbackIndInv'
  BY CallbackStep
<1>3. CallbackIndInv => PromotedIsUploaded
  BY DEF CallbackIndInv
<1> QED BY <1>1, <1>2, <1>3, PTL DEF CallbackSpec

-----------------------------------------------------------------------------
(* Thumbnails: the goroutines that make thumbnails                         *)

\* A goroutine that makes a thumbnail, and its request.
MakerRows ==
    [req : {"idle", "recycle", "over"},
     go : {"none", "clean", "open", "wait", "unlock"} \cup Holding,
     pic : SUBSET Pictures, lock : BOOLEAN, driver : BOOLEAN]

\* The types of the variables.
ThumbTypeOK ==
    /\ picture \in [Pictures -> SUBSET {"row", "info", "content", "thumb"}]
    /\ workers \in Nat /\ maker \in [Makers -> MakerRows]

\* While the goroutine runs, its file system is not yet recycled and still has
\* the picture.
ObjectKept ==
    \A g \in Makers : maker[g].go # "none" =>
        maker[g].req = "recycle" /\ maker[g].driver /\ \E p \in Pictures : maker[g].pic = {p}

\* A goroutine that has opened its source has a picture with content, or was
\* overtaken by a change of the picture.
SourceOpened ==
    \A g \in Makers : \A p \in Pictures :
        maker[g].go \in {"wait", "decode", "save"} /\ maker[g].pic = {p} =>
            "content" \in picture[p] \/ p \in overtaken

\* The inductive invariant. DriverKept is about the moment of a call, so it
\* needs to hold over the whole life of the goroutine.
ThumbIndInv == ThumbTypeOK /\ ObjectKept /\ SourceOpened /\ TokensExact /\ ThumbHasFile

\* Every step of the requests, of the goroutines and of the changes of pictures
\* keeps it.
LEMMA ThumbStep == ThumbIndInv /\ [ThumbNext]_thumbVars => ThumbIndInv'
<1> SUFFICES ASSUME ThumbIndInv, [ThumbNext]_thumbVars PROVE ThumbIndInv'
  OBVIOUS
<1> USE DEF ThumbIndInv
<1>1. ASSUME NEW g \in Makers, NEW p \in Pictures, HookGenerateThumb(g, p) PROVE ThumbIndInv'
  <2>1. ThumbTypeOK'
    BY <1>1 DEF HookGenerateThumb, ThumbTypeOK, MakerRows, Holding
  <2>2. ObjectKept'
    BY <1>1 DEF HookGenerateThumb, ObjectKept, ThumbTypeOK, MakerRows, Holding
  <2>3. SourceOpened'
    BY <1>1 DEF HookGenerateThumb, SourceOpened, ThumbTypeOK, MakerRows, Holding, ObjectKept
  <2>4. TokensExact'
    <3>1. {h \in Makers : maker'[h].go \in Holding} = {h \in Makers : maker[h].go \in Holding} /\ workers' = workers
      BY <1>1 DEF HookGenerateThumb, ObjectKept, ThumbTypeOK, MakerRows, Holding
    <3> QED BY <3>1 DEF TokensExact
  <2>5. ThumbHasFile'
    BY <1>1 DEF HookGenerateThumb, ThumbHasFile, ThumbTypeOK, MakerRows, Holding, SourceOpened,
      ObjectKept
  <2> QED BY <2>1, <2>2, <2>3, <2>4, <2>5
<1>2. ASSUME NEW g \in Makers, NEW p \in Pictures, ThumbOf(g, p) PROVE ThumbIndInv'
  <2>1. ThumbTypeOK'
    BY <1>2 DEF ThumbOf, ThumbTypeOK, MakerRows, Holding
  <2>2. ObjectKept'
    BY <1>2 DEF ThumbOf, ObjectKept, ThumbTypeOK, MakerRows, Holding
  <2>3. SourceOpened'
    BY <1>2 DEF ThumbOf, SourceOpened, ThumbTypeOK, MakerRows, Holding, ObjectKept
  <2>4. TokensExact'
    <3>1. {h \in Makers : maker'[h].go \in Holding} = {h \in Makers : maker[h].go \in Holding} /\ workers' = workers
      BY <1>2 DEF ThumbOf, ObjectKept, ThumbTypeOK, MakerRows, Holding
    <3> QED BY <3>1 DEF TokensExact
  <2>5. ThumbHasFile'
    BY <1>2 DEF ThumbOf, ThumbHasFile, ThumbTypeOK, MakerRows, Holding, SourceOpened, ObjectKept
  <2> QED BY <2>1, <2>2, <2>3, <2>4, <2>5
<1>3. ASSUME NEW g \in Makers, RecycleFS(g) PROVE ThumbIndInv'
  <2>1. ThumbTypeOK'
    <3>1. maker[g] \in MakerRows
      BY DEF ThumbTypeOK
    <3>2. [maker[g] EXCEPT !.req = "over", !.driver = FALSE] \in MakerRows
      BY <3>1 DEF MakerRows
    <3> QED BY <1>3, <3>2 DEF RecycleFS, ThumbTypeOK
  <2>2. ObjectKept'
    BY <1>3 DEF RecycleFS, RecycleReady, ObjectKept, ThumbTypeOK, MakerRows, Holding
  <2>3. SourceOpened'
    BY <1>3 DEF RecycleFS, RecycleReady, SourceOpened, ThumbTypeOK, MakerRows, Holding, ObjectKept
  <2>4. TokensExact'
    <3>1. {h \in Makers : maker'[h].go \in Holding} = {h \in Makers : maker[h].go \in Holding} /\ workers' = workers
      BY <1>3 DEF RecycleFS, RecycleReady, ThumbTypeOK, MakerRows, Holding
    <3> QED BY <3>1 DEF TokensExact
  <2>5. ThumbHasFile'
    BY <1>3 DEF RecycleFS, RecycleReady, ThumbHasFile, ThumbTypeOK, MakerRows, Holding,
      SourceOpened, ObjectKept
  <2> QED BY <2>1, <2>2, <2>3, <2>4, <2>5
<1>4. ASSUME NEW g \in Makers, CleanOldThumb(g) PROVE ThumbIndInv'
  <2>a. PICK p \in Pictures : maker[g].pic = {p} /\ PicOf(g) = p
    <3>1. PICK p \in Pictures : maker[g].pic = {p}
      BY <1>4 DEF ObjectKept, CleanOldThumb
    <3> QED BY <3>1 DEF PicOf
  <2>b. PICK go \in {"open"} : maker' = [maker EXCEPT ![g].go = go]
    BY <1>4 DEF CleanOldThumb, Moves
  <2>c. /\ \A h \in Makers : h # g => maker'[h] = maker[h]
        /\ maker'[g].go = go /\ maker'[g].req = maker[g].req /\ maker'[g].driver = maker[g].driver /\ maker'[g].pic = maker[g].pic
        /\ maker' \in [Makers -> MakerRows] /\ maker[g].go = "clean"
    <3>1. [maker[g] EXCEPT !.go = go] \in MakerRows
      <4>1. maker[g] \in MakerRows
        BY DEF ThumbTypeOK
      <4> QED BY <4>1 DEF MakerRows, Holding
    <3>2. maker[g].go = "clean"
      BY <1>4 DEF CleanOldThumb
    <3> QED BY <2>b, <3>1, <3>2 DEF ThumbTypeOK, MakerRows
  <2>d. picture' = [picture EXCEPT ![p] = @ \ {"thumb"}] /\ UNCHANGED <<workers, overtaken>>
    BY <1>4, <2>a, <2>b, <2>c DEF CleanOldThumb, Moves, Gains, Loses, Has, ThumbTypeOK
  <2>1. ThumbTypeOK'
    BY <2>a, <2>b, <2>c, <2>d DEF ThumbTypeOK, MakerRows, Holding
  <2>2. ObjectKept'
    BY <2>a, <2>b, <2>c, <2>d DEF ObjectKept, ThumbTypeOK, MakerRows, Holding
  <2>3. SourceOpened'
    BY <2>a, <2>b, <2>c, <2>d DEF SourceOpened, ThumbTypeOK, MakerRows, Holding, ObjectKept
  <2>4. TokensExact'
    <3>1. {h \in Makers : maker'[h].go \in Holding} = {h \in Makers : maker[h].go \in Holding} /\ workers' = workers
      BY <2>b, <2>c, <2>d DEF  ThumbTypeOK, MakerRows, Holding
    <3> QED BY <3>1 DEF TokensExact
  <2>5. ThumbHasFile'
    BY <2>a, <2>b, <2>c, <2>d DEF ThumbHasFile, ThumbTypeOK, MakerRows, Holding, SourceOpened,
      ObjectKept
  <2> QED BY <2>1, <2>2, <2>3, <2>4, <2>5
<1>5. ASSUME NEW g \in Makers, OpenSource(g) PROVE ThumbIndInv'
  <2>a. PICK p \in Pictures : maker[g].pic = {p} /\ PicOf(g) = p
    <3>1. PICK p \in Pictures : maker[g].pic = {p}
      BY <1>5 DEF ObjectKept, OpenSource
    <3> QED BY <3>1 DEF PicOf
  <2>b. PICK go \in {"wait", "unlock"} : maker' = [maker EXCEPT ![g].go = go]
    BY <1>5 DEF OpenSource, Moves
  <2>c. /\ \A h \in Makers : h # g => maker'[h] = maker[h]
        /\ maker'[g].go = go /\ maker'[g].req = maker[g].req /\ maker'[g].driver = maker[g].driver /\ maker'[g].pic = maker[g].pic
        /\ maker' \in [Makers -> MakerRows] /\ maker[g].go = "open"
    <3>1. [maker[g] EXCEPT !.go = go] \in MakerRows
      <4>1. maker[g] \in MakerRows
        BY DEF ThumbTypeOK
      <4> QED BY <4>1 DEF MakerRows, Holding
    <3>2. maker[g].go = "open"
      BY <1>5 DEF OpenSource
    <3> QED BY <2>b, <3>1, <3>2 DEF ThumbTypeOK, MakerRows
  <2>d. picture' = picture /\ UNCHANGED <<workers, overtaken>> /\ (go = "wait" => "content" \in picture[p])
    BY <1>5, <2>a, <2>b, <2>c DEF OpenSource, Moves, Gains, Loses, Has, ThumbTypeOK
  <2>1. ThumbTypeOK'
    BY <2>a, <2>b, <2>c, <2>d DEF ThumbTypeOK, MakerRows, Holding
  <2>2. ObjectKept'
    BY <2>a, <2>b, <2>c, <2>d DEF ObjectKept, ThumbTypeOK, MakerRows, Holding
  <2>3. SourceOpened'
    BY <2>a, <2>b, <2>c, <2>d DEF SourceOpened, ThumbTypeOK, MakerRows, Holding, ObjectKept
  <2>4. TokensExact'
    <3>1. {h \in Makers : maker'[h].go \in Holding} = {h \in Makers : maker[h].go \in Holding} /\ workers' = workers
      BY <2>b, <2>c, <2>d DEF  ThumbTypeOK, MakerRows, Holding
    <3> QED BY <3>1 DEF TokensExact
  <2>5. ThumbHasFile'
    BY <2>a, <2>b, <2>c, <2>d DEF ThumbHasFile, ThumbTypeOK, MakerRows, Holding, SourceOpened,
      ObjectKept
  <2> QED BY <2>1, <2>2, <2>3, <2>4, <2>5
<1>6. ASSUME NEW g \in Makers, addWorker(g) PROVE ThumbIndInv'
  <2>a. PICK p \in Pictures : maker[g].pic = {p} /\ PicOf(g) = p
    <3>1. PICK p \in Pictures : maker[g].pic = {p}
      BY <1>6 DEF ObjectKept, addWorker
    <3> QED BY <3>1 DEF PicOf
  <2>b. PICK go \in {"decode"} : maker' = [maker EXCEPT ![g].go = go]
    BY <1>6 DEF addWorker, Moves
  <2>c. /\ \A h \in Makers : h # g => maker'[h] = maker[h]
        /\ maker'[g].go = go /\ maker'[g].req = maker[g].req /\ maker'[g].driver = maker[g].driver /\ maker'[g].pic = maker[g].pic
        /\ maker' \in [Makers -> MakerRows] /\ maker[g].go = "wait"
    <3>1. [maker[g] EXCEPT !.go = go] \in MakerRows
      <4>1. maker[g] \in MakerRows
        BY DEF ThumbTypeOK
      <4> QED BY <4>1 DEF MakerRows, Holding
    <3>2. maker[g].go = "wait"
      BY <1>6 DEF addWorker
    <3> QED BY <2>b, <3>1, <3>2 DEF ThumbTypeOK, MakerRows
  <2>d. picture' = picture /\ overtaken' = overtaken /\ workers' = workers + 1
    BY <1>6, <2>a, <2>b, <2>c DEF addWorker, Moves, Gains, Loses, Has, ThumbTypeOK
  <2>1. ThumbTypeOK'
    BY <2>a, <2>b, <2>c, <2>d DEF ThumbTypeOK, MakerRows, Holding
  <2>2. ObjectKept'
    BY <2>a, <2>b, <2>c, <2>d DEF ObjectKept, ThumbTypeOK, MakerRows, Holding
  <2>3. SourceOpened'
    BY <2>a, <2>b, <2>c, <2>d DEF SourceOpened, ThumbTypeOK, MakerRows, Holding, ObjectKept
  <2>4. TokensExact'
    <3>1. {h \in Makers : maker'[h].go \in Holding} = {h \in Makers : maker[h].go \in Holding} \cup {g}
          /\ g \notin {h \in Makers : maker[h].go \in Holding} /\ workers' = workers + 1
      BY <2>b, <2>c, <2>d DEF Holding
    <3>2. IsFiniteSet({h \in Makers : maker[h].go \in Holding})
      BY FS_Subset, ThumbAssumption
    <3> QED BY <3>1, <3>2, FS_AddElement DEF TokensExact
  <2>5. ThumbHasFile'
    BY <2>a, <2>b, <2>c, <2>d DEF ThumbHasFile, ThumbTypeOK, MakerRows, Holding, SourceOpened,
      ObjectKept
  <2> QED BY <2>1, <2>2, <2>3, <2>4, <2>5
<1>7. ASSUME NEW g \in Makers, NewThumbFromFile(g) PROVE ThumbIndInv'
  <2>a. PICK p \in Pictures : maker[g].pic = {p} /\ PicOf(g) = p
    <3>1. PICK p \in Pictures : maker[g].pic = {p}
      BY <1>7 DEF ObjectKept, NewThumbFromFile
    <3> QED BY <3>1 DEF PicOf
  <2>b. PICK go \in {"save", "release"} : maker' = [maker EXCEPT ![g].go = go]
    BY <1>7 DEF NewThumbFromFile, Moves
  <2>c. /\ \A h \in Makers : h # g => maker'[h] = maker[h]
        /\ maker'[g].go = go /\ maker'[g].req = maker[g].req /\ maker'[g].driver = maker[g].driver /\ maker'[g].pic = maker[g].pic
        /\ maker' \in [Makers -> MakerRows] /\ maker[g].go = "decode"
    <3>1. [maker[g] EXCEPT !.go = go] \in MakerRows
      <4>1. maker[g] \in MakerRows
        BY DEF ThumbTypeOK
      <4> QED BY <4>1 DEF MakerRows, Holding
    <3>2. maker[g].go = "decode"
      BY <1>7 DEF NewThumbFromFile
    <3> QED BY <2>b, <3>1, <3>2 DEF ThumbTypeOK, MakerRows
  <2>d. picture' = picture /\ UNCHANGED <<workers, overtaken>>
    BY <1>7, <2>a, <2>b, <2>c DEF NewThumbFromFile, Moves, Gains, Loses, Has, ThumbTypeOK
  <2>1. ThumbTypeOK'
    BY <2>a, <2>b, <2>c, <2>d DEF ThumbTypeOK, MakerRows, Holding
  <2>2. ObjectKept'
    BY <2>a, <2>b, <2>c, <2>d DEF ObjectKept, ThumbTypeOK, MakerRows, Holding
  <2>3. SourceOpened'
    BY <2>a, <2>b, <2>c, <2>d DEF SourceOpened, ThumbTypeOK, MakerRows, Holding, ObjectKept
  <2>4. TokensExact'
    <3>1. {h \in Makers : maker'[h].go \in Holding} = {h \in Makers : maker[h].go \in Holding} /\ workers' = workers
      BY <2>b, <2>c, <2>d DEF  ThumbTypeOK, MakerRows, Holding
    <3> QED BY <3>1 DEF TokensExact
  <2>5. ThumbHasFile'
    BY <2>a, <2>b, <2>c, <2>d DEF ThumbHasFile, ThumbTypeOK, MakerRows, Holding, SourceOpened,
      ObjectKept
  <2> QED BY <2>1, <2>2, <2>3, <2>4, <2>5
<1>8. ASSUME NEW g \in Makers, Save(g) PROVE ThumbIndInv'
  <2>a. PICK p \in Pictures : maker[g].pic = {p} /\ PicOf(g) = p
    <3>1. PICK p \in Pictures : maker[g].pic = {p}
      BY <1>8 DEF ObjectKept, Save
    <3> QED BY <3>1 DEF PicOf
  <2>b. PICK go \in {"info", "release"} : maker' = [maker EXCEPT ![g].go = go]
    BY <1>8 DEF Save, Moves
  <2>c. /\ \A h \in Makers : h # g => maker'[h] = maker[h]
        /\ maker'[g].go = go /\ maker'[g].req = maker[g].req /\ maker'[g].driver = maker[g].driver /\ maker'[g].pic = maker[g].pic
        /\ maker' \in [Makers -> MakerRows] /\ maker[g].go = "save"
    <3>1. [maker[g] EXCEPT !.go = go] \in MakerRows
      <4>1. maker[g] \in MakerRows
        BY DEF ThumbTypeOK
      <4> QED BY <4>1 DEF MakerRows, Holding
    <3>2. maker[g].go = "save"
      BY <1>8 DEF Save
    <3> QED BY <2>b, <3>1, <3>2 DEF ThumbTypeOK, MakerRows
  <2>d. (picture' = picture \/ picture' = [picture EXCEPT ![p] = @ \cup {"thumb"}]) /\ UNCHANGED <<workers, overtaken>>
    BY <1>8, <2>a, <2>b, <2>c DEF Save, Moves, Gains, Loses, Has, ThumbTypeOK
  <2>1. ThumbTypeOK'
    BY <2>a, <2>b, <2>c, <2>d DEF ThumbTypeOK, MakerRows, Holding
  <2>2. ObjectKept'
    BY <2>a, <2>b, <2>c, <2>d DEF ObjectKept, ThumbTypeOK, MakerRows, Holding
  <2>3. SourceOpened'
    BY <2>a, <2>b, <2>c, <2>d DEF SourceOpened, ThumbTypeOK, MakerRows, Holding, ObjectKept
  <2>4. TokensExact'
    <3>1. {h \in Makers : maker'[h].go \in Holding} = {h \in Makers : maker[h].go \in Holding} /\ workers' = workers
      BY <2>b, <2>c, <2>d DEF  ThumbTypeOK, MakerRows, Holding
    <3> QED BY <3>1 DEF TokensExact
  <2>5. ThumbHasFile'
    BY <2>a, <2>b, <2>c, <2>d DEF ThumbHasFile, ThumbTypeOK, MakerRows, Holding, SourceOpened,
      ObjectKept
  <2> QED BY <2>1, <2>2, <2>3, <2>4, <2>5
<1>9. ASSUME NEW g \in Makers, UpdatePicInfo(g) PROVE ThumbIndInv'
  <2>a. PICK p \in Pictures : maker[g].pic = {p} /\ PicOf(g) = p
    <3>1. PICK p \in Pictures : maker[g].pic = {p}
      BY <1>9 DEF ObjectKept, UpdatePicInfo
    <3> QED BY <3>1 DEF PicOf
  <2>b. PICK go \in {"release", "undo"} : maker' = [maker EXCEPT ![g].go = go]
    BY <1>9 DEF UpdatePicInfo, Moves
  <2>c. /\ \A h \in Makers : h # g => maker'[h] = maker[h]
        /\ maker'[g].go = go /\ maker'[g].req = maker[g].req /\ maker'[g].driver = maker[g].driver /\ maker'[g].pic = maker[g].pic
        /\ maker' \in [Makers -> MakerRows] /\ maker[g].go = "info"
    <3>1. [maker[g] EXCEPT !.go = go] \in MakerRows
      <4>1. maker[g] \in MakerRows
        BY DEF ThumbTypeOK
      <4> QED BY <4>1 DEF MakerRows, Holding
    <3>2. maker[g].go = "info"
      BY <1>9 DEF UpdatePicInfo
    <3> QED BY <2>b, <3>1, <3>2 DEF ThumbTypeOK, MakerRows
  <2>d. (picture' = picture \/ picture' = [picture EXCEPT ![p] = @ \cup {"info"}]) /\ UNCHANGED <<workers, overtaken>>
    BY <1>9, <2>a, <2>b, <2>c DEF UpdatePicInfo, Moves, Gains, Loses, Has, ThumbTypeOK
  <2>1. ThumbTypeOK'
    BY <2>a, <2>b, <2>c, <2>d DEF ThumbTypeOK, MakerRows, Holding
  <2>2. ObjectKept'
    BY <2>a, <2>b, <2>c, <2>d DEF ObjectKept, ThumbTypeOK, MakerRows, Holding
  <2>3. SourceOpened'
    BY <2>a, <2>b, <2>c, <2>d DEF SourceOpened, ThumbTypeOK, MakerRows, Holding, ObjectKept
  <2>4. TokensExact'
    <3>1. {h \in Makers : maker'[h].go \in Holding} = {h \in Makers : maker[h].go \in Holding} /\ workers' = workers
      BY <2>b, <2>c, <2>d DEF  ThumbTypeOK, MakerRows, Holding
    <3> QED BY <3>1 DEF TokensExact
  <2>5. ThumbHasFile'
    BY <2>a, <2>b, <2>c, <2>d DEF ThumbHasFile, ThumbTypeOK, MakerRows, Holding, SourceOpened,
      ObjectKept
  <2> QED BY <2>1, <2>2, <2>3, <2>4, <2>5
<1>10. ASSUME NEW g \in Makers, UndoThumb(g) PROVE ThumbIndInv'
  <2>a. PICK p \in Pictures : maker[g].pic = {p} /\ PicOf(g) = p
    <3>1. PICK p \in Pictures : maker[g].pic = {p}
      BY <1>10 DEF ObjectKept, UndoThumb
    <3> QED BY <3>1 DEF PicOf
  <2>b. PICK go \in {"release"} : maker' = [maker EXCEPT ![g].go = go]
    BY <1>10 DEF UndoThumb, Moves
  <2>c. /\ \A h \in Makers : h # g => maker'[h] = maker[h]
        /\ maker'[g].go = go /\ maker'[g].req = maker[g].req /\ maker'[g].driver = maker[g].driver /\ maker'[g].pic = maker[g].pic
        /\ maker' \in [Makers -> MakerRows] /\ maker[g].go = "undo"
    <3>1. [maker[g] EXCEPT !.go = go] \in MakerRows
      <4>1. maker[g] \in MakerRows
        BY DEF ThumbTypeOK
      <4> QED BY <4>1 DEF MakerRows, Holding
    <3>2. maker[g].go = "undo"
      BY <1>10 DEF UndoThumb
    <3> QED BY <2>b, <3>1, <3>2 DEF ThumbTypeOK, MakerRows
  <2>d. picture' = [picture EXCEPT ![p] = @ \ {"thumb"}] /\ UNCHANGED <<workers, overtaken>>
    BY <1>10, <2>a, <2>b, <2>c DEF UndoThumb, Moves, Gains, Loses, Has, ThumbTypeOK
  <2>1. ThumbTypeOK'
    BY <2>a, <2>b, <2>c, <2>d DEF ThumbTypeOK, MakerRows, Holding
  <2>2. ObjectKept'
    BY <2>a, <2>b, <2>c, <2>d DEF ObjectKept, ThumbTypeOK, MakerRows, Holding
  <2>3. SourceOpened'
    BY <2>a, <2>b, <2>c, <2>d DEF SourceOpened, ThumbTypeOK, MakerRows, Holding, ObjectKept
  <2>4. TokensExact'
    <3>1. {h \in Makers : maker'[h].go \in Holding} = {h \in Makers : maker[h].go \in Holding} /\ workers' = workers
      BY <2>b, <2>c, <2>d DEF  ThumbTypeOK, MakerRows, Holding
    <3> QED BY <3>1 DEF TokensExact
  <2>5. ThumbHasFile'
    BY <2>a, <2>b, <2>c, <2>d DEF ThumbHasFile, ThumbTypeOK, MakerRows, Holding, SourceOpened,
      ObjectKept
  <2> QED BY <2>1, <2>2, <2>3, <2>4, <2>5
<1>11. ASSUME NEW g \in Makers, MakerDone(g) PROVE ThumbIndInv'
  <2>a. PICK p \in Pictures : maker[g].pic = {p} /\ PicOf(g) = p
    <3>1. PICK p \in Pictures : maker[g].pic = {p}
      BY <1>11 DEF ObjectKept, MakerDone, releaseWorker
    <3> QED BY <3>1 DEF PicOf
  <2>b. PICK go \in {"unlock"} : maker' = [maker EXCEPT ![g].go = go]
    BY <1>11 DEF MakerDone, releaseWorker, Moves
  <2>c. /\ \A h \in Makers : h # g => maker'[h] = maker[h]
        /\ maker'[g].go = go /\ maker'[g].req = maker[g].req /\ maker'[g].driver = maker[g].driver /\ maker'[g].pic = maker[g].pic
        /\ maker' \in [Makers -> MakerRows] /\ maker[g].go = "release"
    <3>1. [maker[g] EXCEPT !.go = go] \in MakerRows
      <4>1. maker[g] \in MakerRows
        BY DEF ThumbTypeOK
      <4> QED BY <4>1 DEF MakerRows, Holding
    <3>2. maker[g].go = "release"
      BY <1>11 DEF MakerDone, releaseWorker
    <3> QED BY <2>b, <3>1, <3>2 DEF ThumbTypeOK, MakerRows
  <2>d. picture' = picture /\ overtaken' = overtaken /\ workers' = workers - 1
    BY <1>11, <2>a, <2>b, <2>c DEF MakerDone, releaseWorker, Moves, Gains, Loses, Has, ThumbTypeOK
  <2>1. ThumbTypeOK'
    <3>1. workers' \in Nat
      <4>1. g \in {h \in Makers : maker[h].go \in Holding} /\ IsFiniteSet({h \in Makers : maker[h].go \in Holding})
        BY <2>c, FS_Subset, ThumbAssumption DEF Holding
      <4>2. workers # 0
        BY <4>1, FS_EmptySet DEF TokensExact
      <4> QED BY <2>d, <4>2 DEF ThumbTypeOK
    <3> QED BY <2>c, <2>d, <3>1 DEF ThumbTypeOK
  <2>2. ObjectKept'
    BY <2>a, <2>b, <2>c, <2>d DEF ObjectKept, ThumbTypeOK, MakerRows, Holding
  <2>3. SourceOpened'
    BY <2>a, <2>b, <2>c, <2>d DEF SourceOpened, ThumbTypeOK, MakerRows, Holding, ObjectKept
  <2>4. TokensExact'
    <3>1. {h \in Makers : maker'[h].go \in Holding} = {h \in Makers : maker[h].go \in Holding} \ {g}
          /\ g \in {h \in Makers : maker[h].go \in Holding} /\ workers' = workers - 1
      BY <2>b, <2>c, <2>d DEF Holding
    <3>2. IsFiniteSet({h \in Makers : maker[h].go \in Holding})
      BY FS_Subset, ThumbAssumption
    <3> QED BY <3>1, <3>2, FS_RemoveElement DEF TokensExact
  <2>5. ThumbHasFile'
    BY <2>a, <2>b, <2>c, <2>d DEF ThumbHasFile, ThumbTypeOK, MakerRows, Holding, SourceOpened,
      ObjectKept
  <2> QED BY <2>1, <2>2, <2>3, <2>4, <2>5
<1>12. ASSUME NEW g \in Makers, UnlockRecycle(g) PROVE ThumbIndInv'
  <2>1. ThumbTypeOK'
    <3>1. maker[g] \in MakerRows
      BY DEF ThumbTypeOK
    <3>2. [maker[g] EXCEPT !.go = "none", !.lock = FALSE] \in MakerRows
      BY <3>1 DEF MakerRows
    <3> QED BY <1>12, <3>2 DEF UnlockRecycle, ThumbTypeOK
  <2>2. ObjectKept'
    BY <1>12 DEF UnlockRecycle, ObjectKept, ThumbTypeOK, MakerRows, Holding
  <2>3. SourceOpened'
    BY <1>12 DEF UnlockRecycle, SourceOpened, ThumbTypeOK, MakerRows, Holding, ObjectKept
  <2>4. TokensExact'
    <3>1. {h \in Makers : maker'[h].go \in Holding} = {h \in Makers : maker[h].go \in Holding} /\ workers' = workers
      BY <1>12 DEF UnlockRecycle, ThumbTypeOK, MakerRows, Holding
    <3> QED BY <3>1 DEF TokensExact
  <2>5. ThumbHasFile'
    BY <1>12 DEF UnlockRecycle, ThumbHasFile, ThumbTypeOK, MakerRows, Holding, SourceOpened,
      ObjectKept
  <2> QED BY <2>1, <2>2, <2>3, <2>4, <2>5
<1>13. ASSUME NEW p \in Pictures, PictureDeleted(p) PROVE ThumbIndInv'
  <2>1. ThumbTypeOK'
    BY <1>13 DEF PictureDeleted, DeletedParts, ThumbTypeOK, MakerRows, Holding
  <2>2. ObjectKept'
    BY <1>13 DEF PictureDeleted, DeletedParts, ObjectKept, ThumbTypeOK, MakerRows, Holding
  <2>3. SourceOpened'
    BY <1>13 DEF PictureDeleted, DeletedParts, SourceOpened, ThumbTypeOK, MakerRows, Holding,
      ObjectKept
  <2>4. TokensExact'
    BY <1>13 DEF PictureDeleted, DeletedParts, TokensExact, ThumbTypeOK
  <2>5. ThumbHasFile'
    BY <1>13 DEF PictureDeleted, DeletedParts, ThumbHasFile, ThumbTypeOK, MakerRows, Holding,
      SourceOpened, ObjectKept
  <2> QED BY <2>1, <2>2, <2>3, <2>4, <2>5
<1>14. ASSUME NEW p \in Pictures, PictureRowDeleted(p) PROVE ThumbIndInv'
  <2>1. ThumbTypeOK'
    BY <1>14 DEF PictureRowDeleted, ThumbTypeOK, MakerRows, Holding
  <2>2. ObjectKept'
    BY <1>14 DEF PictureRowDeleted, ObjectKept, ThumbTypeOK, MakerRows, Holding
  <2>3. SourceOpened'
    BY <1>14 DEF PictureRowDeleted, SourceOpened, ThumbTypeOK, MakerRows, Holding, ObjectKept
  <2>4. TokensExact'
    BY <1>14 DEF PictureRowDeleted, TokensExact, ThumbTypeOK, MakerRows, Holding
  <2>5. ThumbHasFile'
    BY <1>14 DEF PictureRowDeleted, ThumbHasFile, ThumbTypeOK, MakerRows, Holding, SourceOpened,
      ObjectKept
  <2> QED BY <2>1, <2>2, <2>3, <2>4, <2>5
<1>15. CASE UNCHANGED thumbVars
  <2>1. ThumbTypeOK'
    BY <1>15 DEF thumbVars, ThumbTypeOK
  <2>2. ObjectKept'
    BY <1>15 DEF thumbVars, ObjectKept
  <2>3. SourceOpened'
    BY <1>15 DEF thumbVars, SourceOpened
  <2>4. TokensExact'
    BY <1>15 DEF thumbVars, TokensExact
  <2>5. ThumbHasFile'
    BY <1>15 DEF thumbVars, ThumbHasFile
  <2> QED BY <2>1, <2>2, <2>3, <2>4, <2>5
<1> QED BY <1>1, <1>2, <1>3, <1>4, <1>5, <1>6, <1>7, <1>8, <1>9, <1>10, <1>11, <1>12, <1>13, <1>14,
        <1>15 DEF ThumbNext, MakerStep

\* It holds before the first thumbnail.
LEMMA ThumbInitInv == ThumbInit => ThumbIndInv
<1> SUFFICES ASSUME ThumbInit PROVE ThumbIndInv
  OBVIOUS
<1>1. ThumbTypeOK
  <2>1. NoMaker \in MakerRows
    BY DEF NoMaker, MakerRows
  <2> QED BY <2>1 DEF ThumbInit, ThumbTypeOK
<1>2. \A g \in Makers : maker[g].go = "none"
  BY DEF ThumbInit, NoMaker
<1>3. ObjectKept /\ SourceOpened /\ ThumbHasFile
  BY <1>2 DEF ThumbInit, ObjectKept, SourceOpened, ThumbHasFile
<1>4. TokensExact
  <2>1. {g \in Makers : maker[g].go \in Holding} = {}
    BY <1>2 DEF Holding
  <2> QED BY <2>1, FS_EmptySet DEF ThumbInit, TokensExact
<1> QED BY <1>1, <1>3, <1>4 DEF ThumbIndInv

\* The pool of thumbnail workers gets back every token it gives out, no
\* goroutine uses a driver that its request has already recycled, and a
\* thumbnail belongs to a picture that has content, unless it was overtaken
\* (thumb.Pool, GenerateThumbnail, FileSystem.Recycle): for every set of
\* pictures and goroutines.
THEOREM ThumbnailsHold == ThumbSpec => []ThumbInv
<1>1. ThumbInit => ThumbIndInv
  BY ThumbInitInv
<1>2. ThumbIndInv /\ [ThumbNext]_thumbVars => ThumbIndInv'
  BY ThumbStep
<1>3. ThumbIndInv => ThumbInv
  BY DEF ThumbIndInv, ThumbInv, ObjectKept, DriverKept, Calling
<1> QED BY <1>1, <1>2, <1>3, PTL DEF ThumbSpec
=============================================================================
