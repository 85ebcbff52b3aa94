# PersonalLib in TLA+

PersonalLib is a web server with which the users of a private library lend
books to each other: `src/PersonalLib2/book_server.cc` on top of `httplib.h`, with its data in a MySQL database
and in files under `book_data/` and `user_data/`. This directory models its
state and the handlers that change it, checks the models with TLC on small
instances, and proves what matters most with TLAPS for every instance.

## 1. The system

### Components

| component | source | state | operations |
|---|---|---|---|
| process | `book_server.cc` `main`, `httplib.h` `listen_internal` | up or not, one detached thread per connection, MySQL connections held | start, die by an uncaught exception or a kill, run handlers |
| BookModel | `book_model.hpp` | `std::map<int,Book> model`; table `BookBase`; `book_data/book_config.cfg` | `Load`, `GetBook`, `GetAllBooks`, `GetBookByISBN`, `GetMyBooksByUname`, `InsertBook`, `UpDateBook` |
| UserModel | `user_model.hpp` | `std::map<int,User>`; table `user`; `user_data/user_config.cfg` | `Load`, `GetUser`, `GetUserVerify`, `InsertBook` (which inserts a user) |
| CommModel | `comm_model.hpp` | `std::map<int,Comm>`; table `Comments` | `Load`, `InsertComments`, look-ups for pages |
| lending | `book_server.cc` `/update`, `/updateback` | none of its own: locals | borrow a book, give it back with a comment |
| uploading | `book_server.cc` `/uploadbook`, `util.hpp` `GetFile` | locals; `book_data/<id>/desc.txt` | offer a book |
| enrolment, login | `book_server.cc` `/enroll`, `/login` | locals | new user, password check |
| comments | `book_server.cc` `/comment`, `/communicate` | locals | add a comment or a message |
| pages | the `Get` handlers, `/search`, `*_view.hpp`, `template/` | none | render |
| TimeUtil | `util.hpp` | none | `ListDate` (the date a loan is due), `getTime` |
| forms | `util.hpp` `UrlUtil`, `StringUtil` | none | `ParseBody`, `UrlEncode`, `UrlDecode`, `Split` |
| HTTP server | `httplib.h` (server half) | routing table, `running_threads_`, the socket | accept, parse, route, answer, keep alive, stop |

### How they interact

`main` fills the three maps from the tables and listens. Every connection gets
a thread of its own, and every handler runs in such a thread and captures the
three models by reference. There is no lock anywhere in the program. A handler
that changes something

1. reads what it needs from the maps,
2. decides, and builds an SQL statement out of what it has read,
3. runs the statement on a new MySQL connection, which it never closes,
4. calls `Load()`, which clears the map and rebuilds it in place.

The maps are caches of the tables, `Load()` is the only thing that brings them
up to date, and what the decision of step 2 is about may be gone in step 3.

### What is hard

* **Races on the maps.** `Load()` clears and refills a map that other threads
  search: they see no books, some books, a half-assigned book; and
  inserting into a `std::map` from two threads may lose nodes of its tree.
* **Check, then act.** `islend`, the isbn and the next id are looked up in the
  map and used in the table.
* **Failures in the middle.** A connect, a query, an `open` or a `mkdir` may
  fail between any two steps; most results are ignored.
* **Connections that leak.** Every write keeps its connection; so does a
  `Load()` whose query fails. When MySQL has none left, `Load()` clears the map
  and stops.
* **Exceptions.** `std::stoi` of an empty string, and `std::string(nullptr)`,
  throw in a thread where nothing catches.
* **Connections and clients.** One detached thread per connection; clients
  pipeline, send half a message, fall silent, do not read, or come when the keep-alive time
  is up; `stop()` and a failing `accept` race all of that.
* **Positions in strings**: buffers that are full, escapes and chunks that end
  early, empty parts.
* **Calendar arithmetic** at the ends of months, years and in leap years.

`PROJECT.json` lists each of these as a hazard at its line.

### What would make it correct

* lending: a book is in, or one reader has it; `waitnum` counts that loan;
  giving back frees it; a handler that has begun ends.
* BookModel: between two requests the map is the table; an entry is the book of
  its key; connections are accounted for.
* uploading: ids are given out without gaps; no two books have one isbn; the
  files under an id describe the book with that id.
* enrolment: the same for users. login: a name and password that are those of
  a stored user, and every stored user's.
* the tables: a book's owner, a loan's borrower and a comment's writer are users;
  the pages show what the tables say.
* TimeUtil: the due date is a date, the asked number of days from now.
* forms: what is typed into a form is what the handler gets.
* HTTP server: requests are answered in order, an answer that announces the end is the
  last, every connection ends, and a stopped server closes its socket and comes to an end.

Several of these do not hold of the code. The runs that are expected to find a
violation (section 3) show which, with the comment of the code they contradict.

## 2. The modules

| module | models | extends |
|---|---|---|
| `Process` | the process, its threads' program counters, MySQL connections | |
| `BookModel` | the map, the table, the config file, `Load()` step by step | `Process` |
| `UserModel`, `UserLoading` | the user map and table; its `Load()` step by step, and the look-ups under races | `Process` |
| `CommModel` | the comments | `Process` |
| `Lending` | `/update` and `/updateback` | the three models |
| `LendingDesk` | the abstract desk: who has which book | |
| `Uploading` | `/uploadbook` | `BookModel`, `UserModel` |
| `Enrolment` | `/enroll`, and what `/login` finds | `UserLoading` |
| `Commenting` | `/comment` (two routes) and `/communicate` | the three models |
| `Pages` | the queries behind `/book`, `/personal` and `/search` | the three models |
| `BookServer` | the program: `Lending`, `Uploading`, `Enrolment` and `Commenting`, each an `INSTANCE`, on one process, its maps and its tables | `Pages`, `UserLoading` |
| `HttpServer` | httplib's accept loop, connection threads, `process_request`, `stop()`, and the clients | |
| `HttpDialogue` | the abstract keep-alive connection | |
| `UrlUtil` | the handlers' decoding of forms | |
| `HttpText` | httplib's reading and writing of lines, headers, URLs, chunks, multipart bodies, paths | `UrlUtil` |
| `ListDate` | `TimeUtil::ListDate`, turn by turn | |
| `MC...` | the instances for TLC | |
| `ModelProofs` | lemmas about the connections, the maps of the books and of the users, and both `Load()`s | `BookModel`, `UserLoading` |
| `LendingProofs` | theorems about `Lending` with any number of threads, and with one | `Lending`, `ModelProofs` |
| `UploadingProofs`, `EnrolmentProofs` | theorems about `Uploading` and `Enrolment` with any number of threads | `ModelProofs` |
| `BookServerProofs` | theorems about the composed program | `BookServer`, `ModelProofs` |
| `HttpServerProofs` | theorems about `HttpServer` with any number of connections | `HttpServer` |
| `ListDateProofs` | theorems about `ListDate` | `ListDate` |
| `HttpTextProofs` | theorems about texts of any length, and induction and recursion for them | `HttpText` |

`PROJECT.json` names, for every definition, the lines it stands for.

**State.** `server` is whether the process runs. `pc[t]` is the point that the
handler of thread `t` has reached; `"idle"` is a thread between two requests. A
step of a handler is the code between two accesses to something shared that
another thread may change: the map, the table, a file. The locals a later step
needs are in `req[t]`, `form[t]` or `enrol[t]`. `model` is the map, `BookBase` the table and
`book_config` the ids with a line in `book_config.cfg`. `result[t]` and `lines[t]` are the rows that the
`Load()` of thread `t` has stored and not yet copied, and the config lines it
has not yet read. Tables and files survive the end of the process; everything
else is gone.

**Data.** A book keeps the columns that decisions depend on: id, isbn, owner,
owner's uid, borrower, `islend` and `num` (the column `waitnum`); a user
keeps uid, name and password. Names and isbns are model
values. A numeric string is its number, and `NoNumber` when it is empty or none, on
which `std::stoi` throws. The code looks a book up with the number of
the route's digits, so a bid is a natural number. An absent book is a default
constructed one (`Blank`), since the callers ignore the result of `GetBook`.

**Load().** `LoadClear` clears the map; `LoadConnectFails` and
`LoadSelectFails` are the early returns after that; `LoadSelect` stores the
result of the query; `LoadFetch` copies one row; `LoadClose` closes the connection and
opens the config file; `LoadConfigLine` is `model[id].dir = ...`, which keeps
an entry or creates a blank one. The order of the rows, and of the lines, is left open.

`UserModel::Load()` (`LoadUsers...`) is the same without the first step: it calls
`empty()`, which changes nothing, so the map only grows and outlives a failed
`Load()`. `model[k] = u` makes a blank node and then assigns it string by string; a reader
may see either half of an entry, of a new node as well (`Assigning`, `UserReads`). `CommModel::Load()` does not clear either; its rows never change, and it is
one step (`LoadComments`).

**BookServer.** One request at a time, no fault but kills: the module assumes
one thread and `~Faults`. A request names any ids, stored or not, since any digits match the
routes, and a newcomer may be called `NULL`, which is also what the table has for no
borrower. Each action of a component leaves the
others' variables alone. That one thread runs also means that the other components'
locals are at rest when a handler aborts.

**HttpServer.** `listening` is where `listen()` is, `stopping` where `stop()`,
`thread[c]` where the connection `c` and its thread are. `svr_sock_` and the
kernel's socket (`accepting`) are two variables, because `stop()` changes one and then
the other, and because a failing `accept` closes the socket and leaves `svr_sock_`.
What a client sends is a sequence of lines of six kinds; `stream[c]` is what
has arrived and not been read. A thread reads a line when there is one, and waits
when there is none: only `select()`, between two requests, has a timeout. `stop()` is called
once, at any time. A handler and the write of an answer are one step, which `send()` may put off
for ever when the client does not read (`Sends`); that it fails is not told from success, since
the result is not looked at. Of the 415 and the multipart 400 the same holds as of an answer. `HttpDialogue`
sees the number of lines sent and the answers.

**HttpText, UrlUtil.** A string is a sequence of bytes, so the boundaries that
matter are there: `AppendByte` has the buffer's size as a parameter, decoders
stop, skip or abort at the byte where the code does. What goes through a `const char*` (`%s`,
`strcmp`, `regex_match` on `ptr()`, the loop of `encode_url`) ends at the first NUL (`CString`). The regular
expression of a header is written out for what it matches: where a line break may stand, and
what of the white space it gives back to a value that has nothing else. In a multipart body each header line is one symbol. A
chunk's size is the hex digits its line begins with; `std::stoi` throws when there is none or an int does
not hold the number (`INT_MAX`). The blanks, sign and `0x` it would also take are left out.

**Undefined behaviour.** A `std::map` that one thread changes and another reads
is a data race. The models choose over what such a build does: a look-up while
another thread clears or inserts may miss any entry (`GetBook`,
`GetBookByISBN`, `AllBooks`, and for users `UserFound`, `AllUsers`, `GetUserVerify`), a record read while it is assigned may mix the old strings
with the new (`Torn`, `TornUser`), two insertions at once may lose any nodes (`Inserted`, `InsertedUser`),
and the process may die between any two steps (`Crash`, which also stands for a
kill). Two bounds: a torn string is the old or the new one, not
a mixture of their characters; and a corrupted tree loses entries or kills the
process, but invents none.

**External.** MySQL runs a statement at once or not at all. With `Faults` a
connect or a query may fail by itself, and in `UploadNotInserted` and `EnrolNotInserted` the answer to
an insert may be lost after the row was stored. `BookBase` has the bid as its primary key, and
no column is null: the statements of the program always name eleven values.

## 3. The runs

All runs: two CPUs, well below five minutes each.

| run | checks | shows |
|---|---|---|
| `lending_serial` | `MapAllOrNothing`, `WaitnumBound`, `ImplementsDesk`, `Answered` | one request at a time, with every fault, crash and restart, the handlers implement `LendingDesk`: a lent book is lent to nobody else and never to its owner. Between two requests the map is the whole table or empty; waitnum is at most 1, and at most 0 for a book that is in; every handler that has begun ends |
| `lending_concurrent` | `TypeOK`, `ConnsAccounted`, `MapNamesBooks` | two threads, with every fault and race: a connection is closed only by who has one, an entry of the map is the book of its key or blank |
| `lending_twice` | `LentOnce` violated | two requests read the map before either has reloaded it, and both borrow the book |
| `lending_stale` | `MapFresh` violated | of two overlapping `Load()`s the one that selected first writes its rows last; the map stays old |
| `uploading_concurrent` | `TypeOK`, `IdsContiguous`, `DescribesRow`, `ConfiguredHasRow` | two uploads, with every fault and race: ids have no gap, descriptions are those of their rows, config lines have rows |
| `enrolment_concurrent` | `TypeOK`, `UidsContiguous`, `DescribesUser`, `LoginVerified`, `MapNamesUsers` | two enrolments, with every fault and race: the same for users; and a name and a password, neither of them empty, log in only a stored user who has both, although a login may read an entry that is being assigned. An empty one may also match an entry that is blank or half assigned, which `/login` does not refuse |
| `enrolment_login` | `UsersLogIn` violated | of two users of one name the second never logs in: `GetUserVerify` compares the password of the first only |
| `server` | `ServedUntilFull`, `IsbnUnique`, `TablesAgree`, `PagesAgree`, `AbortsOnlyWhenFull`, `LentOnce` | all handlers that write, one request at a time, on one process that is killed and restarted at any step: until the leaked connections have used MySQL up, the maps are the tables between two requests and no request for what is stored ends the process. Full or not, books and comments name stored users and books, a loan a stored user or (of an unknown uid) nobody, a lent book is lent to nobody else, no two books have one isbn, and, while books are served at all, the pages of borrower and owner agree with the table, except for a user called `NULL` |
| `http_server` | `TypeOK`, `AnswersInOrder`, `ClosesAnnounced`, `ListenerClosed`, `ConnectionsEnd`, `ListenEnds`, `ImplementsDialogue` | the i-th answer is to the i-th request while a client keeps to the protocol; keep-alive implements `HttpDialogue` whatever it sends; a connection that was not announced to close is cut only when nothing is unread; once `listen()` has returned and `stop()` is done no socket listens, whoever of the two got there first; every connection ends and a stopped `listen()` returns, unless a client falls silent in a message or does not read its answer |
| `http_text` | `FieldArrives`, `DecodersAgree`, `PathArrives`, `HeaderArrives`, `ChunkedArrives`, `PartsArrive`, `PathInside` | what is written is what is read, over every text of up to four of sixteen pieces, as far as the form can carry it (no line break or NUL in a header, no NUL, `%` or `?` in a path); `UrlDecode` and `decode_url` agree wherever the text is well escaped; `is_valid_path` counts as a reference does |
| `list_date` | `SameDay`, `DateOrLeapDay`, `Returns` | every day of four years, every number of days the handler lets through up to 90 and two negative ones |
| `list_date_leap` | `DateReturned` violated | a loan due on February 29 is due on March 0 |

**Bounds.** `lending_serial`: two books of two owners and an id (3) that is no
book's, two users and an uid that is no user's, valid, too long and malformed
lend times; `MaxWait = 1` keeps waitnum in -1..2, which is enough for a
count that is off by one in either direction; four connections, so that MySQL
is used up after a few writes. `lending_concurrent`: two threads, two books, one of which
requests are for and three connections: two `Load()`s and one leak, or three
leaks. Two threads suffice for each race of the list, because each is between a
reader and a writer or between two writers. `uploading_concurrent`: up to three books
(`MaxBooks`), one of them there at the start, three isbns; the connections bound the number of
uploads between two restarts. `enrolment_concurrent`: up to three users, one of them there at the start,
a newcomer of the same name and one with the same password. Both use the symmetry of the
two threads, and have no liveness property. `server`: two books (`MaxBooks`), one
of them uploaded in the run, three users, the third enrolled in the run, as `cid` or as `NULL`, so that somebody who is neither owner nor borrower can
ask; requests for every id of `Bids` and `Uids`, so of books and users that are not or not yet stored; lend times of
30 days and of no number; one comment (`MaxComments`, repeated as often as one likes); four connections, so
that two or three writes use them up, and any number of restarts. `http_server`: one client that sends up to two messages
(`MaxMessages`) out of four and may leave at any line, one that only connects and leaves;
`KeepAliveMax = 2`, so that the last answer, an earlier one and the
asked-for end are three different cases; two threads are enough for the counter, since threads
meet only there. `http_text`: the pieces are the bytes on which the parsers decide
(NUL, space, `%`, `&`, `+`, `-`, `.`, `/`, `:`, `=`, `?`, and CR LF as a pair), one
on which none does, one above 127, two hex digits and a boundary; of the white space a header's
pattern skips only the space is there, and CR and LF only together;
four of them make every pair of neighbours inside others. `list_date`: 2027 (common), 2028
(leap), 2099 and 2100 (a century that is none).

**Deadlock** is checked except for `ListDate` and `HttpServer`, which end, and
`HttpText`, which has a bound on its text: a server that is up
can always be asked, one that is down can be started.

**Fairness.** `Answered` assumes weak fairness of each thread's `Handle`: the
operating system keeps scheduling a thread whose handler is under way. Nothing
is assumed of clients, of starts or of crashes. `UpDateBook` and `Load()` end
because a call to MySQL returns, with an answer or an error: the program sets
no timeout, so this assumes one of the client library or the system. It is
checked with one thread; a handler waits for no other, so more threads do not
add a way to hang. `ListDate` assumes
that its loop goes on. `HttpServer` assumes that the thread in `listen()`, a `stop()` that has begun, and each
connection's thread keep being scheduled, and that `select()` returns when
its time is up. It assumes nothing of the clients, so a thread that waits in `recv` for the rest
of a message, or in `send` for a client to read, may wait for ever: these are the two exceptions (`Silent`,
`Sends`, together `Stalled`) in both liveness properties. A client that has closed does not hold up `send`, which then
fails; the signal that could come with the failure is ignored (`Server::Server`).

**Mutants.** Every property has a mutant in `PROJECT.json`: a changed action or
helper, defined beside the original, which makes the run fail. They stand for
plausible bugs: the check of `islend` left out, `if` for `while` around
`mysql_fetch_row`, `empty()` for `clear()` (which `UserModel` and `CommModel`
really have), a socket that is left to somebody else to close, an ignored result.

**Worth knowing, and without a run.** `/updateback` checks nothing: a book that
is in can be given back, and its waitnum then becomes -1; a book can be given
back by whom it was not lent to. While another thread is between `clear()` and
the last row of `Load()`, a well-formed `/update` ends the process
(`AbortsOnlyWhenFull` fails with two threads). Both follow from the actions
`ReturnWrites` and `LendAborts`. With two threads two uploads can store one isbn (`IsbnUnique`
fails: the map is cleared between the count and the look-up). When the connections
are used up the server runs on with an empty book map (the other side of
`ServedUntilFull`). After an enrolment whose reply was lost, every later one computes the
same taken id until a restart, since only a successful insert reloads the map. A thread that has
been accepted and has not counted itself is not waited for by `listen()`, and then locks a mutex
of the `Server`, which must not have been destroyed by then (`ThreadCounts` after `ListenReturns`). `/login` takes an
empty password: a name whose node `Load()` has just made logs in with it, and an empty name with a blank
node. `/update/1/999` lends a book to the empty name, as the result of `GetUser` is ignored. A user who enrols as
`NULL` finds every book that is in among the books he has borrowed. A header value with a NUL does not arrive, and
a path with one is cut there. The links of `my_books.html` are `/book/<id>`, which
the server matches as the library of a user with that name.

## 4. The proofs

`tlapm` checks the eight `...Proofs` modules.

* `LendingImplementsDesk`: with one connection thread `Lending` implements
  `LendingDesk`, for any table, any users, any number of connections, faults and crashes.
* `LendingWaitnumBound`: nor does it count a loan twice, if the first table did not.
* `LendingMapAllOrNothing`: between two of its requests the map is the whole table, with or
  without the config lines, or empty, however `Load()` fails and whenever the process dies.
* `LendingTypeOK`, `LendingConnsAccounted` and `LendingMapNamesBooks`: the three
  properties of `lending_concurrent` hold for any finite set of threads.
* `UploadingTypeOK`, `UploadingIdsContiguous` and `UploadingDescribesRow`: the
  three properties hold of `Uploading` for any finite set of threads, any table
  and config file the program has written, any number of connections, with or without faults.
* `UploadingConfiguredHasRow`: so does `ConfiguredHasRow`, if every config line
  had a row when the server was first started.
* `EnrolmentTypeOK`, `EnrolmentUidsContiguous`, `EnrolmentMapNamesUsers`,
  `EnrolmentLoginVerified` and, if every config line had a row at first,
  `EnrolmentDescribesUser`: the five properties of `enrolment_concurrent`, for any
  finite set of threads and any table the program has written.
* `BookServerServedUntilFull`, `BookServerTablesAgree`, `BookServerIsbnUnique`,
  `BookServerPagesAgree`, `BookServerAbortsOnlyWhenFull` and
  `BookServerLentOnce`: the six properties of `server`, with the exceptions they name, for one thread without faults of
  MySQL (as the run has it), any tables that agree at first, requests that name any ids, any number of
  connections, and kills and restarts at any point.
* `HttpServerTypeOK`, `ListenerIsClosed`, `ClosesAreAnnounced`, `AnswersAreInOrder` and
  `ServerKeepsDialogue`, the refinement of `HttpDialogue`: the safety properties of
  `http_server`, for any number of connections, any messages, any limit of keep-alive.
* `ListDateSameDay` and `ListDateDateOrLeapDay`: every turn of `ListDate` stands for the same
  day, and it returns a date or day 0 of March in a leap year, for every date
  and every number of days the handler lets through.
* `PathsStayInside`, `ReadersAgree`, `FieldsArrive`, `PathsArrive`, `HeadersArrive`,
  `ChunksArrive` and `PartsArriveWhole`: the seven properties of `http_text`, for texts of any
  length put together of any bytes that the property admits (no line break or NUL in a header's value, no NUL,
  `%` or `?` in a path; chunks of a length that an int holds).

**Assumptions.** TLC evaluates each on the instances.

* `ProcessAssumption`: finitely many threads, MySQL grants at least the three
  connections of the start, no name is empty (`/enroll` refuses that), and `NoNumber` is neither a number
  nor a name; `NULL` may be a name. `BookModelAssumption`, `UserModelAssumption`,
  `LendingAssumption`, `UploadingAssumption`, `EnrolmentAssumption`, `RequestsAssumption`
  and `HttpServerAssumption` are types, that no stored password is empty (`/enroll` refuses those too), and that a message has a line.
* `StoredBooksAssumption` and `StoredUsersAssumption`: the ids stored at first are 1..n, as the
  program itself gives them out.
* `StoredTablesAssumption`, for `BookServer` only: the tables are finite; no two books have one
  isbn; a book names its owner by id and name; a loan names a user or nobody; a book that is in has
  the borrower `NULL`; config lines have rows. That is what the handlers store.
* `BookServerAssumption`: one thread, no faults. With two threads or a failing `Load()` several
  of the six are false (section 3).
* `HttpTextAssumption`: the pieces of a text are strings of bytes.
* `ListDateAssumption`: years are positive, and no more than 90 days are asked for, which the
  handler of `/update` checks.

**`Load()`** is dealt with once, in `ModelProofs`, for every module that uses the maps: `LoadKeeps` and
`LoadUsersKeeps` are what it preserves with any number of threads, `LoadAlone`
what it does with one. The step of each action is a lemma or a case of its own, and the
theorems combine them with PTL.

**The invariant of Lending, any number of threads** (`Inv`). `MapNamesBooks` is about
the map and the table; what a `Load()` is going to put into the map it selected
earlier, and in between another thread may have written. So `RowsNamed` says
that a stored result differs from the table at most in who has the book
(`SameBook`): the two statements, `SetLoan`, change nothing else. `KeysKnown` and
`ConnsAccounted` are as below.

**The invariant with one thread** (`Serial`). `OneThread` is the assumption that
no two threads differ; then a look-up returns the entry of the map and an insertion loses none
(`Alone`). The decision to lend is made on the map and carried out on the table, so the
invariant says how they agree in between:

* `MapIsFresh`: unless the thread is between its write and the `clear()` after it,
  every entry of the map is the row of the table or blank. A `Load()` that
  failed leaves it empty and one under way partly filled, but not old;
* `ResultsFresh`: the same of a stored result;
* `RequestsFit`: the row that a thread is about to write is still in, is not the
  borrower's own and has the waitnum that the thread has read. A blank entry cannot get
  here: `std::stoi` of its empty strings ends the process first;
* `BooksStay`: the books and their owners are those of the first table.

Then `LendWrites` is `Desk!Lend`, `ReturnWrites` is `Desk!GiveBack` (or a stutter, when the
statement failed or no such book exists), and every other step leaves the table alone
(`NextSerial`). With two threads `RequestsFit` fails, which is what
`lending_twice` shows.

`MapAllOrNothing` says nothing of a `Load()` under way, so `SoFar` does
(`LoadSoFar`): the rows in the map and those still to come are together the table; after the last row the
lines done and those still to come are together the config file. Otherwise the map is
whole (`MapWhole`) or about to be cleared.

**The invariant of Uploading.** `IdsContiguous` is not inductive: the id of an
upload was computed from a map some steps ago. `Inv` adds

* `ConnsAccounted`: every fetching `Load()` is counted in `conns`, without which
  closing a connection could make it negative;
* `KeysKnown`: the keys of the map and of every stored result or line are ids
  of the table or the config file. So however a race goes, no more books are
  counted than there are ids, and the id an upload computes is at most the next;
* `IdsInterval`: the ids are 1..n for some n, which `IdsContiguous` follows from;
* `FormsNext`: the id a thread is about to insert is at most the next one;
* `FormsStored`: a thread that is past its insert has the row under its id, with the
  isbn of its form. Only the thread whose insert succeeded gets there, so nobody else writes the
  description;
* `StoredFirst`: an id without a row has no description.

**The invariant of Enrolment** is that of `Uploading` with users for books (`UidsInterval`,
`EnrolsNext`, `EnrolsStored`, `DescribesRow`), and `UsersKnown`: keys as above, and
`RowsCurrent`. No handler changes a user's row, so a row stays what it was
when it was selected, and an entry of the map is that row or blank. What a search reads of an
entry, or of a node that is being made, has each string from the row or empty (`ReadsAreRows`); so a match of a
name and a password that are both not empty is the row itself, and `LoginVerified` holds although nothing
is locked. With an empty password it is the name that matches, before the password is assigned, which the property allows
by name.

**The invariant of BookServer** says where the maps may differ from their tables, and why a
handler that finds nothing in them is right.

* `BooksAway`, `UsersAway`, `CommsAway` are the points between a write and the end of the
  `Load()` after it. Elsewhere the map is the table (`BooksFollow`, `UsersFollow`,
  `CommsFollow`) unless a `Load()` found no connection. Connections are never returned but by
  a `Load()` that has one, so that can be said of the present: `Room(t)`, there is a
  connection left for `t`, or `t` is about to give one back. It never becomes true again
  (`LoadRoom`) until the process ends, and the next one starts with none taken.
* `Ready` is what a handler has read and still relies on: the book it is about to lend is in,
  the isbn it is about to insert is in no row, the borrower it is about to
  write is a user or the empty name, provided that there is a connection, without which nothing is written.
* `Tables` is `IsbnUnique` and `TablesAgree`, that a book that is in has the borrower `NULL`,
  for a page that finds loans by the borrower's name, and that the tables are finite, for the next id.

The handlers are `INSTANCE`s of their modules; `LoadIsLoad` and
`LoadUsersIsLoadUsers` say that their copies of `Load()` are the one `ModelProofs` is about.

**The invariants of HttpServer.** `Inv` counts along each connection: `LinesSent` (the lines
of the stream are those of messages sent, in order), `CountsAnswers` (`keep_alive_count` and the answers
given), `AnswersRead` (an answer stands after the lines it has read, and no answer
stands before another), `CloseIsLast` (nothing is read after an answer
that announces the close). From it follow the counter, the announced closes and, with
`Asked` and `Said` for the variables of `HttpDialogue`, the refinement. `SocketInv` is about `listen()` and
`stop()`: a socket that is open although `svr_sock_` no longer names it, or `listen()` has left its loop, is one that
`stop()` is about to close, and nobody is queued on one that is closed; so whichever order they come in, `ListenerClosed`.

`AnswersInOrder` needs what is still to come. `OrderInv` says, of a client whose messages
so far are proper, that the lines still to be read, those not yet arrived among them, follow each
other as the lines of proper messages do, from the place where the thread is (`InOrder`,
`Follows`): a `blank` after headers is followed by the body the headers
promised or by the next request line. A thread that read a line too many or too few would be at a
place its next line does not fit.

**ListDate.** `CarryKeepsTheDay` says that the days of a month (29 in the February
of a leap year) are what separates the first of one month from the first of the
next, with `NextYear` for December. `DueInv` bounds the day: it is at least 1 (or the 0 of March
in a leap year), and once the loop has ended at most what the table has for the month.

**HttpText.** The parsers are recursive functions, and what they compute is proved for every
text. The induction theorems of the library cannot be used, but induction on a set can:
a set of naturals that is not empty has a least element (`LeastNat`, from the well-foundedness of
`<`), hence `Induction`. From it follows that a definition `f[i] == B[<<f, i>>]` that
asks only for values of lower rank has a solution (`Recursion`) and one only (`OneSolution`).
`Iteration` is the case of a loop, `Unrolling` that of a parser that goes on
further to the right. Each parser has a lemma `...Solves` that it goes
forward, so that its equation may be used.

* *Fields and paths.* `Flattened` says where each piece of a concatenation stands. An encoder
  writes one piece for each byte, in which no separator occurs; so `Split` cuts where the
  sender joined, and the decoder takes up exactly one piece each time (`Spelled`).
* *Decoders.* On a well escaped text `UrlDecode` and `decode_url` take up
  the same bytes at each place (`SameDecoding`), and no field that `Split` cuts out ends within
  an escape (`SplitEscaped`).
* *C strings.* A text without a NUL is its own `CString` (`WholeCString`), which every lemma below that
  passes through a `const char*` assumes of its text.
* *Lines.* After k bytes the reader has them in the fixed buffer, or, from the byte that
  fills it on, in the string (`Read`, `ReaderStep`); so a line is read whole (`ReadsLine`). `HeaderValues` says which places the pattern can put the
  value of a written header at.
* *Chunks.* `Spells` is what a size line must satisfy: hex digits which, whatever follows
  them, read as the number. Each further digit keeps it (`SpellsMore`), so `from_i_to_hex`
  has it (`HexSpelled`); then a chunk that stands in the stream is read (`ReadsChunk`) and the
  next one begins where it ends.
* *Multipart.* `Layout` says what stands where in a body of two parts. The content ends at the
  first CRLF and boundary after it: none is inside, and none can begin in
  the content and end behind it (`PartEnds`).
* *Depth.* The level of a path, while it is not negative, is the steps down less the steps up
  (`Net`).

**Only model-checked.** Out of the prover's reach: `Answered`, `Returns`, `ConnectionsEnd` and
`ListenEnds`, which are liveness. Every other property of a run that passes is a theorem of its module,
under the run's own assumptions (one thread for `lending_serial` and `server`, and no faults for the latter). The runs that expect a violation are TLC's alone.

## 5. Not modelled, and the plan

* **Routing.** Which handler a path reaches is taken from the route of the handler; that the
  first matching pattern wins and that a file of `./template` comes before any
  handler is not modelled.
* **Pages without a choice.** `/all_books`, `/all_users`, `/upload`, `/borrow` and
  `/back` show a map or one entry of it. The views and templates fill records into HTML.
* **Columns no decision reads**: title, author, dates, phone, address; the
  files' contents except whom or which book a description belongs to; the
  text of a comment and whom it is addressed to. Equal comments are one.
* **Races of comments.** `CommModel::Load()` is one step.
* **SQL text.** The handlers put form fields into their statements unescaped. The models take every
  statement to be well formed and to do what its author meant: fields with quotes are not modelled.
* **Steps that are one.** `/updateback` and the comment handlers read the maps and insert the comment
  in one step (`ReturnComments`, `CommentStored`). Rows are never deleted, so what was looked up is still
  stored when the comment is; no property depends on more.
* **httplib beyond its server's threads and texts**: how much `send()` takes before it blocks, content without a length,
  a `Content-Length` that is no number (`std::stoull` throws, nothing catches, and the process ends), the client half, TLS, compression, static files except
  `is_valid_path`. `stop()` is called at most once; what a `stop()` after a failed `accept`
  does to a descriptor number that is in use again is not modelled.
* **MySQL.** It closes a connection that has been idle for its `wait_timeout` (eight
  hours unless configured); the models have no such event, so "used up" means
  within that time. The vendored MySQL headers under `include/`, four fifths of the repository's
  lines, declare a library and do nothing.

What is left to do: the races of `CommModel::Load()`, of which every other part of the server
keeps clear.
