\* A header of two bytes and a name of one; payloads of up to one byte are
\* accepted.  Connections end.
SPECIFICATION Spec
CONSTANTS
    Header = 2
    Name = 1
    MaxPayload = 1
    Streams <- ShortStreams
INVARIANTS TypeOK RequestsAsSent NothingLeftBuffered AfterCreateOrDelete
PROPERTY ReadsAgain
CHECK_DEADLOCK FALSE
