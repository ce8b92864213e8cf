# Formal models of `step oauth`

This directory holds TLA+ models of `src/command/oauth/cmd.go`, the `step oauth` command. The models are checked with TLC, and part of them is proved with TLAPS.

## 1. The system

`step oauth` obtains an OAuth 2.0 / OIDC token and prints it. It has these parts:

| Part | Code | State | Operations |
|---|---|---|---|
| Config Resolver | `oauthCmd` 250-342, `options.Validate` 399-419, `newOauth` 445-526, `disco` 528-553 | provider, client id/secret, the two endpoints, the two-legged switch | validate flags; default client; `--client-id` override; explicit endpoints; `--account` file; discovery |
| Flow Orchestrator | `oauthCmd` 344-360, `Do*Authorization` 590-775 | the chosen strategy | loopback, manual (console), two-legged, JWT |
| Callback Server | `NewServer` 556-587, `ServeHTTP` 779-831, `implicitHandler` 833-876, `success`/`badRequest` 933-950 | listener, one goroutine per request, the unbuffered `tokCh` and `errCh` | route a callback; check state; exchange the code; send the result |
| Flow Session | `Auth` 878-907, `Exchange` 909-931 | `o.redirectURI`, state, verifier, nonce | build the authorization URL; POST the code |
| Output | `oauthCmd` 362-384 | - | print JSON, the bare token or a header |

They interact as follows:

- In the loopback strategy, the orchestrator starts an `httptest.Server` (`NewServer`). It then assigns `o.redirectURI` from the server's address, opens the browser on `Auth()`, and `select`s on `tokCh`, `errCh` and a 2-minute timer. Finally the deferred `srv.Close()` runs.
- Each HTTP request runs `ServeHTTP` in a goroutine of its own.
- The channels are unbuffered, so a handler's send is a rendezvous with the `select`. Once the select has returned, nobody receives.
- `httptest.Server.Close` waits for the requests in flight.

These behaviours make the code hard to get right:

- callbacks that race each other (a reload, a forged request, a provider error and a code);
- a request served before `o.redirectURI` is assigned;
- a timeout racing a handler inside `Exchange`;
- a late send after the select has returned;
- the account file, the endpoint flags and the default client interacting in `oauthCmd`.

## 2. Modules

### `OAuthLoopback.tla`

This module models the loopback strategy and the callback server, with `Req` as a set of concurrent request slots.

State:

- `pc` is where `DoLoopbackAuthorization` is: `newServer`, `setRedirect`, `auth`, `wait`, `close`, `closeWait`, `done`.
- `listener` is whether the listener is open.
- `redirectSet` says whether `o.redirectURI` has been assigned.
- `published` says the authorization URL (with `o.state`) is out, so the real state can appear in a callback.
- `result` is what the select received, and from whom.
- Per slot:
  - `hpc[r]` is where the handler goroutine is;
  - `req[r]` is the query it serves, abstracted to the fields the code tests: on the callback path, `error`, `code`, state good, bad or absent, `urlhash`, `access_token`;
  - `exch[r]` is the outcome of `Exchange` and whether it read an assigned `o.redirectURI`.
- `implicit` and `listen` (was `--listen` given) are fixed in `Init`.

Actions:

| Action | Code it models |
|---|---|
| `NewServer` | 556-596 |
| `SetRedirectURI` | 597-602 |
| `Auth` | 605-623 |
| `Receive(r)` | the select's channel cases, 625-630 |
| `Timeout` | 631-633 |
| `CloseListener`, `CloseReturns` | the two halves of `srv.Close()` at 603 |
| `ServeHTTP(r)` | 779-831, with routing in `Route` and `implicitRoute` |
| `Exchange(r)` | 909-931, including the `tok.Err` check at 820 and the unbuffered sends |

A handler in `sendTok` or `sendErr` is blocked on its send. It leaves that state only through `Receive`.

`implicit` mode also records, per request, whether the redirect script served on a first load (`ServesScript`, lines 863-875) embedded an assigned `o.redirectURI` (`script[r]`).

### `OneShotResult.tla`

This module is the abstract specification of what the loopback flow promises its caller (spec 4.3, 5 and 9): a single-use result slot.

- Senders become `eligible` by presenting an authentic credential (`Admit`).
- The slot is filled once (`Decide`): with a token from an eligible sender, or with an error or the timeout. After that it never changes.
- `OSpec` adds weak fairness on `Decide`: the slot is eventually filled. The code does not keep this half of the promise. In the `loopback_hang` trace, `DoLoopbackAuthorization` never returns, so the mapped slot stays empty for ever. `OSpec` is therefore not checked as a property of a passing run.

`OAuthLoopback` defines the refinement mapping `OS == INSTANCE OneShotResult WITH ...`:

- `outcome` is `Returned`: what `DoLoopbackAuthorization` has returned. It is empty until `pc = "done"`, that is, until the deferred `srv.Close()` is over. After that it is the select's `result`. An error's sender is erased, because the caller does not see it.
- `eligible` is `Eligible`: the requests whose handler holds a token to send, or has sent one and was authentic.

### `OAuthCommandFlow.tla`

This module composes `OAuthCommand` and `OAuthLoopback` by `INSTANCE`. Each model's `pc` keeps its own variable.

- `CmdStep` runs every step of `oauthCmd` except the switch's default case.
- In that case (`Loopback`: no service account, no `--console`), `LoopStep` runs the loopback model. Its `o.implicit` is taken from `flags.implicit`.
- `LoopReturns` resumes `oauthCmd` with the select's result (lines 358-360).
- The constant `Flags` restricts the command lines explored. `MCOAuthCommandFlow` takes every line that tells the loopback branches apart: code or implicit flow, `--console` or not, no account file, an installed one, or a service account.

### `MCOAuthLoopback.tla`

This module fixes `Req` to 2 or 3 model values and defines a symmetry set.

### `OAuthCommand.tla`

This module models `oauthCmd` as one sequential process. Every step is the stretch of code between two decisions, in code order: `Validate`, `ClientCheck`, `Credentials`, `Endpoints`, `Account`, `NewOauth`, `Flow`, `Output`.

- `Init` enumerates every flag combination the code tells apart, together with every account-file shape. The shapes are:
  - unreadable;
  - not JSON;
  - installed, complete or missing a key;
  - service account, complete or missing a key;
  - any other shape.
- `Validate` lets a `--listen-url` through when it parses but has no scheme. Line 412 returns `errors.Wrapf(err, ...)` with a nil `err`, which is nil. This is the same nil-wrap as at 326, and the flag field `listen` tells the three cases apart.
- `Flow` abstracts the strategies to their outcomes: an error, a token, a token carrying error fields (two-legged only), or the loopback hang that `OAuthLoopback` exhibits.

### `OAuthLoopbackProofs.tla`, `OAuthCommandProofs.tla`, `OAuthCommandFlowProofs.tla`

These modules hold the TLAPS proofs (section 5).

## 3. Runs

| Run | Checks | Result |
|---|---|---|
| `loopback_safety` (3 slots, symmetry) | `TokenSoundness`, `MalformedKeepsWaiting`, `ExchangeUsesRedirectURI` | pass, about 254k distinct states |
| `loopback_stranded` | `NoStrandedSender` (spec §5: a late write must not block) | **violated** |
| `loopback_hang` | `FlowReturns` (spec §4.3: the timeout bounds the flow) | **violated** |
| `loopback_script` | `ScriptUsesRedirectURI` (spec 4.2, 4.3: the redirect target is fixed before it is used) | **violated** |
| `command` | `TypeOK`, `DefaultClientOnlyGoogle` | pass, about 31k states |
| `command_flow` (composition, 2 slots) | `LoopbackPrintsAuthenticToken` | pass, about 88k states |
| `command_nil_success` | `SuccessPrintsToken` (spec §6) | **violated** |
| `command_error_token` | `NoErrorTokenSucceeds` (spec §3, §7) | **violated** |
| `command_endpoints` | `ExplicitEndpointsWin` (spec §4.1) | **violated** |

The properties:

- **TokenSoundness:** a token result comes from a request on the callback path, with no error parameter, with the session's state, and either implicit with `urlhash` and an access token, or code flow with an `Exchange` whose response had no error fields. This must hold with any number of stray or racing callbacks.
- **MalformedKeepsWaiting:** a callback without code or state never ends the flow.
- **ExchangeUsesRedirectURI:** every exchange read an assigned `o.redirectURI`.
- **LoopbackPrintsAuthenticToken:** a token `oauthCmd` prints after the loopback strategy came from an authentic callback. A timeout or an error is never printed. This relates the command's output to handler state in the other component.

The findings, with traces:

1. **Stranded sender.** Auth fails or the timer fires, then a callback arrives. Its handler blocks on `errCh <-` (950) or `tokCh <-` (830, 854) for ever.
2. **Hang.** A stray request with an `error` parameter, or with a bad state, arrives before the browser completes and terminates the flow. This is allowed. But a later callback strands its handler, and the deferred `srv.Close()` then waits for it. The command never returns, so the 2-minute timeout is not an upper bound.
3. **Nil success.** An account file whose `type` is neither `installed` nor `service_account` returns `errors.Wrapf(nil, ...)`, which is `nil` (326). The command exits 0 and prints nothing.
4. **Error token.** `DoTwoLeggedAuthorization` (670-729) returns the token without checking `Err`. `oauthCmd` prints it and exits 0.
5. **Endpoints.** `--token-endpoint` is read only when `--authorization-endpoint` is set (288), and `--account` overwrites both endpoints (312-323).
6. **Script race.** In implicit mode, a request to the callback path after the server starts (593) but before `o.redirectURI` is written (598-601) gets the redirect script. That script reads `o.redirectURI` concurrently with the write, which is a data race, and embeds the unassigned value. The trace has three steps: `NewServer`, then `ServeHTTP` before `SetRedirectURI`.

### Bounds and fairness

Three request slots are enough for the loopback safety properties:

- A returned token involves one handler.
- Breaking `TokenSoundness` or `MalformedKeepsWaiting` needs at most one competing handler.
- A third slot covers a late arrival after the select has returned.

Every query shape the code's branches distinguish is enumerated. The two-slot runs cover the hang and the stranded sender: a stray request plus the real one.

For the command, the flag space is enumerated exhaustively.

Fairness is used only by `loopback_hang`. It is weak fairness on the orchestrator's own steps and on `Timeout`. The orchestrator is one goroutine that is never blocked in those steps, and `time.After` always fires. Handlers and the browser get no fairness, because a request may never come. `CHECK_DEADLOCK FALSE` is justified in every run: the loopback model can stop in `closeWait` (the real hang), and the command model stops when `oauthCmd` returns.

### Mutants

Each property of a passing run is shown to catch a plausible bug. The bugs are seeded faults defined in the modules:

- `Route` passes a malformed callback on to `Exchange`.
- `Route` drops the state check.
- `Exchange` ignores `tok.Err`.
- Line 265 drops `|| c.IsSet("authorization-endpoint")`.
- A strategy returns a nil token.
- `oauthCmd` drops `if err != nil` at 358.

## 4. Hazards

`PROJECT.json` lists each hazard at its line, with the properties covering it. One is not covered: the absence of a timeout in `Exchange` and in the two-legged POST. Spec 9 leaves it an open question, so there is no stated property to check, and those strategies are abstracted to their outcomes.

## 5. What is proved

`OAuthLoopbackProofs.tla` proves, for every finite `Req`:

- **TypeCorrect** `Spec => []TypeOK`. The proof uses `InitType` and `TypeStep`, which has one step per action. The loopback type invariant is not a property of any run: no plausible bug in the Go code changes the types the model gives it. It is the lemma the other proofs rest on.
- **TokenSoundnessHolds** `Spec => []TokenSoundness`.
- **ExchangeRedirectHolds** `Spec => []ExchangeUsesRedirectURI`.

- **MalformedKeepsWaitingHolds** `Spec => []MalformedKeepsWaiting`.
- **RefinesOneShot** `Spec => OS!SafeSpec`. This is the safety part of the refinement, under the mapping to what `DoLoopbackAuthorization` returns. The initial state maps to `OInit`, and `RefineStep` shows every step maps to `Admit(r)`, `Decide`, or a stutter:
  - `ServeHTTP` and `Exchange` reaching `sendTok` are `Admit(r)`.
  - `CloseReturns` (the deferred `srv.Close()` returning) and the failing `NewServer` are `Decide` (lemma `MappedReturn`). At that point the function returns the select's result, or `NewServer`'s error.
  - `Receive`, the timer and a failing `Auth` fill `result` but leave the returned value empty, so they are stutters.
  - Everything else leaves `Returned` and `Eligible` alone (lemma `MappedUnchanged`).

All but the first rest on the inductive invariant `IInv`, which `IInvInit` and `IInvNext` establish. `IInv` adds the following to `TypeOK`:

- `pc = "auth" => redirectSet` and `published => redirectSet`: the URL goes out only after `o.redirectURI` is assigned.
- Per handler (`HandlerInv`):
  - A handler about to exchange holds an on-path, error-free, good-state code-flow request.
  - A handler about to send a token holds an authentic request.
  - A request with the good state implies the URL was published.
  - A recorded exchange read an assigned redirect URI.
  - An idle handler has no query, no exchange, and is not the result's sender.
  - A handler about to send an error is not authentic. Together with the line above, this keeps `Eligible` unchanged by every step but an `Admit`.
- `ResultInv`: a token result's sender is in `Req`, has finished (`hpc = "done"`), and is authentic.
- Until the select returns, the result is empty. After it, the result is filled. The second half makes `CloseReturns` a `Decide` with a real outcome.
- `MalformedKeepsWaiting` itself.

`TokenSoundness` alone is not inductive. A handler in `sendTok` with a non-authentic request would make the next `Receive` break it, so the invariant must speak of handlers before they send. It must also say the sender has finished, so that its request cannot be overwritten after the result is taken.

Routing facts are lemmas (`RouteType`, `RouteExchange`, `RouteToken`), cited where `ServeHTTP` is handled.

`OAuthCommandProofs.tla` proves, for every command line:

- **CmdTypeCorrect** `Spec => []TypeOK`.
- **DefaultClientOnlyGoogleHolds** `Spec => []DefaultClientOnlyGoogle`.

The second rests on `CInv`:

- Between `ClientCheck` and the account step, a run without `--client-id` has provider google and no `--authorization-endpoint`. Line 265 lets it through only then.
- The default client is only chosen, and only survives, under those conditions.
- A google provider that reaches the strategy has the fixed Google endpoints from `newOauth`.

`OAuthCommandFlowProofs.tla` proves **LoopbackPrintsAuthenticTokenHolds** `Spec => []LoopbackPrintsAuthenticToken` for the composition. It instantiates `OAuthLoopbackProofs` with the same substitution as `Loop`, as `LP`, and reuses its lemmas:

- `SameInit` and `SameNext` show that `Loop` and `LP` agree.
- `LoopSteps` shows every composed step is a loopback step or a stutter of the loopback's variables, `flags.implicit` included. So `LP!IInv` is invariant.
- `FInv` adds two facts. A printed token means `oauthCmd` has returned. A loopback run at the output code got there from a token result, because `CmdStep` excludes the switch's default case and `LoopReturns` goes to output only on a token.

The same module also proves a further theorem about the composition:

- **FlowRefinesOneShot** `Spec => LP!OS!SafeSpec`. Run inside `oauthCmd`, for every command line, the loopback flow still implements the safety part of `OneShotResult`. Each composed step is a loopback step or a loopback stutter (`LoopSteps`), and `LP!RefineStep` maps it to an abstract step. `FInv` supplies `LP!IInv`.

These stay with TLC:

- liveness: the only liveness property, `FlowReturns`, is false of the code. Liveness in general needs fairness and ENABLED, which the prover cannot handle. The liveness half of the refinement (`WF` on `Decide`) fails by the same trace as `loopback_hang`;
- the properties of the violation runs, which are false of the code: TLC exhibits the traces.

Every invariant of a passing run is proved for all values of the constants.


## 6. Not modelled

- Two practically unreachable paths of `NewServer`: the panic of `httptest.NewServer` without `--listen`, and the error at 579-582 that returns after `srv.Start()` without closing the server.
- The contents of the authorization URL: PKCE S256 hashing, nonce, `prompt`, `login_hint`.
- JWT signing and PEM parsing. These are reduced to success or failure.
- The HTML pages and the output formatting. Only "a token was printed" is kept.
- Flag registration and help text.

## 7. Further work

1. Model the manual flow's steps (reading the code, `Exchange`, the `tok.Err` check) in detail, and the absence of a timeout if the open question of spec 9 is settled.
2. Model the `--listen-url` advertisement, which the model reduces to "the redirect target is assigned".
