------------------------------ MODULE ZipFile ------------------------------
(***************************************************************************)
(* base/zlib_help.h: InMemoryFile, the stream that minizip works on, and   *)
(* FileToRead and FileToWrite over it, which remember the first error.     *)
(* What minizip answers is external: any call of it may fail, and a broken *)
(* archive may give fewer bytes than its directory says.                   *)
(***************************************************************************)
EXTENDS Integers, Sequences, SequencesExt, FiniteSets

CONSTANTS
  Members,      \* the files of the archive, and the names one may write
  NotThere,     \* a name that is not in it
  NoMember,
  MaxBytes,     \* bound of the bytes of a stream
  MaxSteps      \* bound of the calls of a writer or a reader

VARIABLES
  part,         \* which of the three classes this behaviour uses
  bytes,        \* InMemoryFile::_data: whether each byte was ever written
  position,     \* InMemoryFile::_position
  dataError,    \* InMemoryFile::_error
  ignored,      \* a write came after a seek() had failed, since the data was emptied
  handle,       \* _handle is not null
  zipError,     \* FileToRead::_error or FileToWrite::_error is not zero
  currentMember,\* the file minizip stands at, or writes
  content,      \* what the last readFileContent was asked for and returned
  short,        \* it got fewer bytes than it asked for
  archive,      \* the files that are whole in the written archive
  accepted,     \* those openNewFile returned no error for
  steps

memoryVars == <<bytes, position, dataError, ignored>>
readVars == <<content, short>>
writeVars == <<archive, accepted>>
vars == <<part, memoryVars, handle, zipError, currentMember, readVars, writeVars, steps>>

-----------------------------------------------------------------------------
\* InMemoryFile: open() for reading stands at the start, for creating it empties
\* the data; seek() moves before it looks whether there is such a place; after
\* that read() and seek() do nothing, while write() goes on where it stands.
MemoryOpen ==
  \E create \in BOOLEAN :
    /\ bytes' = IF create THEN <<>> ELSE bytes
    /\ ignored' = (ignored /\ ~create)
    /\ position' = 0 /\ dataError' = FALSE

MemoryWrite ==
  \E size \in 1 .. MaxBytes :
    /\ position + size <= MaxBytes
    /\ bytes' = [i \in 1 .. Len(bytes) \cup 1 .. (position + size) |->
                   (i \in DOMAIN bytes /\ bytes[i]) \/ i \in position + 1 .. position + size]
    /\ position' = position + size /\ ignored' = (ignored \/ dataError)
    /\ UNCHANGED dataError

MemoryRead ==
  \E size \in 1 .. MaxBytes :
    LET left == IF Len(bytes) > position THEN Len(bytes) - position ELSE 0
    IN /\ ~dataError
       /\ position' = position + (IF size < left THEN size ELSE left)
       /\ UNCHANGED <<bytes, dataError, ignored>>

MemorySeek ==
  \E place \in 0 .. MaxBytes :
    /\ ~dataError /\ position' = place /\ dataError' = (place > Len(bytes))
    /\ UNCHANGED <<bytes, ignored>>

MemoryClose == position' = 0 /\ dataError' = FALSE /\ UNCHANGED <<bytes, ignored>>

MemoryStep ==
  /\ part = "memory"
  /\ MemoryOpen \/ MemoryWrite \/ MemoryRead \/ MemorySeek \/ MemoryClose
  /\ UNCHANGED <<part, handle, zipError, currentMember, readVars, writeVars, steps>>

-----------------------------------------------------------------------------
Failed == zipError \/ dataError

\* FileToRead: each call asks minizip if nothing failed before and there is a
\* handle.
LocateFile(name, error, at) ==
  \/ Failed /\ error = zipError /\ at = currentMember
  \/ ~Failed /\ ~handle /\ error /\ at = currentMember
  \/ ~Failed /\ handle /\ name \in Members /\ ~error /\ at = name
  \/ ~Failed /\ handle /\ name = NotThere /\ error /\ at = currentMember

\* readFileContent: locates, then asks for the size, opens, reads and closes;
\* the file that gives fewer bytes stays open and is no error.
ReadFileContentMutant(name) ==
  \E error, broken, fewer \in BOOLEAN, at \in Members \cup {NoMember} :
    /\ part = "read" /\ LocateFile(name, error, at) /\ currentMember' = at
    /\ (~handle \/ at = NoMember) => broken
    /\ zipError' = broken
    /\ content' = [name |-> name, of |-> IF broken \/ fewer THEN NoMember ELSE at]
    /\ short' = (fewer /\ ~broken)
    /\ \E damaged \in BOOLEAN : dataError' = (dataError \/ (damaged /\ broken))
    /\ UNCHANGED <<part, bytes, position, ignored, handle, writeVars>>

ReadFileContent(name) ==
  \E error, broken, fewer \in BOOLEAN, at \in Members \cup {NoMember} :
    LET located == ~error /\ ~Failed
    IN /\ part = "read" /\ LocateFile(name, error, at) /\ currentMember' = at
       /\ zipError' = (error \/ (located /\ broken))
       /\ content' = [name |-> name,
                      of |-> IF located /\ ~broken /\ ~fewer THEN at ELSE NoMember]
       /\ short' = (located /\ fewer /\ ~broken)
       /\ \E damaged \in BOOLEAN :
            dataError' = (dataError \/ (damaged /\ located /\ broken))
       /\ UNCHANGED <<part, bytes, position, ignored, handle, writeVars>>

\* goToNextFile, the others alike: the current file moves.
GoToNextFile ==
  \E at \in Members, last \in BOOLEAN :
    /\ part = "read" /\ ~Failed
    /\ zipError' = (last \/ ~handle)
    /\ currentMember' = IF zipError' THEN currentMember ELSE at
    /\ UNCHANGED <<part, memoryVars, handle, readVars, writeVars>>

\* clearError() forgets _error; what is wrong with the data stays.
ClearError ==
  /\ part = "read" /\ zipError /\ zipError' = FALSE
  /\ UNCHANGED <<part, memoryVars, handle, currentMember, readVars, writeVars>>

\* close(), in the destructor or before; minizip closes the stream as well,
\* which clears its error, and tells of one itself.
Close ==
  \E fails \in BOOLEAN :
    /\ part # "memory" /\ handle /\ handle' = FALSE /\ dataError' = FALSE
    /\ dataError => fails
    /\ zipError' = (zipError \/ fails) /\ currentMember' = NoMember
    /\ archive' = IF part = "write" /\ ~fails /\ currentMember # NoMember
                  THEN Append(archive, currentMember) ELSE archive
    /\ UNCHANGED <<part, bytes, position, ignored, readVars, accepted>>

-----------------------------------------------------------------------------
\* FileToWrite: minizip closes the file it writes before it opens the next.
OpenNewFile(name) ==
  \E fails, damaged \in BOOLEAN :
    LET asked == ~Failed /\ handle
    IN /\ part = "write"
       /\ zipError' = (zipError \/ (~Failed /\ (~handle \/ fails)))
       /\ dataError' = (dataError \/ (asked /\ fails /\ damaged))
       /\ archive' = IF asked /\ ~fails /\ currentMember # NoMember
                     THEN Append(archive, currentMember) ELSE archive
       /\ currentMember' = IF ~asked THEN currentMember
                           ELSE IF fails THEN NoMember ELSE name
       /\ accepted' = IF asked /\ ~fails THEN Append(accepted, name) ELSE accepted
       /\ UNCHANGED <<part, bytes, position, ignored, handle, readVars>>

\* A writeInFile() that fails leaves the file incomplete.
WriteInFile ==
  \E fails \in BOOLEAN :
    /\ part = "write" /\ ~Failed
    /\ (~handle \/ currentMember = NoMember) => fails
    /\ zipError' = fails
    /\ currentMember' = IF fails THEN NoMember ELSE currentMember
    /\ UNCHANGED <<part, memoryVars, handle, readVars, writeVars>>

CloseFile ==
  \E fails \in BOOLEAN :
    /\ part = "write" /\ ~Failed
    /\ (~handle \/ currentMember = NoMember) => fails
    /\ zipError' = fails /\ currentMember' = NoMember
    /\ archive' = IF fails THEN archive ELSE Append(archive, currentMember)
    /\ UNCHANGED <<part, memoryVars, handle, readVars, accepted>>

-----------------------------------------------------------------------------
Init ==
  /\ part \in {"memory", "read", "write"} /\ bytes = <<>> /\ position = 0
  /\ dataError = FALSE /\ ignored = FALSE /\ handle \in BOOLEAN /\ zipError = ~handle
  /\ part = "memory" => handle
  /\ currentMember = NoMember /\ content = [name |-> NotThere, of |-> NoMember]
  /\ short = FALSE /\ archive = <<>> /\ accepted = <<>> /\ steps = 0

ZipStep ==
  /\ steps < MaxSteps /\ steps' = steps + 1
  /\ \/ \E name \in Members \cup {NotThere} : ReadFileContent(name)
     \/ \E name \in Members : OpenNewFile(name)
     \/ GoToNextFile \/ ClearError \/ Close \/ WriteInFile \/ CloseFile

Next == MemoryStep \/ ZipStep
Spec == Init /\ [][Next]_vars

-----------------------------------------------------------------------------
\* The type invariant.
TypeOK ==
  /\ part \in {"memory", "read", "write"} /\ bytes \in Seq(BOOLEAN)
  /\ position \in 0 .. MaxBytes /\ dataError \in BOOLEAN /\ ignored \in BOOLEAN
  /\ handle \in BOOLEAN
  /\ zipError \in BOOLEAN /\ currentMember \in Members \cup {NoMember}
  /\ content \in [name : Members \cup {NotThere}, of : Members \cup {NoMember}]
  /\ short \in BOOLEAN /\ steps \in 0 .. MaxSteps
  /\ archive \in Seq(Members) /\ accepted \in Seq(Members)

\* The data has a byte that was never written only if a writer went on after
\* seek() had told it that it went past the end.
BytesAreWritten == ignored \/ \A i \in DOMAIN bytes : bytes[i]

\* What readFileContent() returns is the file that was asked for, whole, however
\* the calls before it failed; and if it is nothing, there is an error to see,
\* except when the archive gave fewer bytes than it promised.
ContentIsAsked == content.of \in {content.name, NoMember}
NothingIsToldAsError ==
  [][(part = "read" /\ content'.of = NoMember /\ content' # content)
       => Failed' \/ short']_vars

\* An archive that was closed without an error has every file that was accepted,
\* in their order, complete.
ArchiveIsWhole ==
  part = "write" /\ ~handle /\ ~Failed => archive = accepted
=============================================================================
